---- MODULE Spec2Model ----
(***************************************************************************)
(* Signal detection and alert-state engine of the Iran market bot          *)
(* (src/main.py) and the legacy persistent state (src/state.py).           *)
(*                                                                         *)
(* Conventions of the model                                                *)
(*  - A title is a tuple of one-character strings, so that lower(),        *)
(*    strip() and difflib.SequenceMatcher can be computed as Python does.  *)
(*  - A price is a whole number of cents c; the Python value is the        *)
(*    binary64 number c/100.0.  Percentages are binary64 numbers, kept     *)
(*    exactly as [k, e], meaning k + e * 2^-50 (see F64Pct, F64Sub).       *)
(*  - Time is counted in units of 30 minutes; an ISO timestamp is the      *)
(*    integer instant it denotes (isoformat()/fromisoformat() of UTC       *)
(*    datetimes are order preserving and inverse to each other).           *)
(***************************************************************************)
EXTENDS Integers, Sequences, FiniteSets, TLC

(***************************************************************************)
(* Python string operations used by the matcher                            *)
(***************************************************************************)

\* str.lower() on one character of the model's alphabet
LowerChar(c) ==
  CASE c = "A" -> "a"
    [] c = "B" -> "b"
    [] c = "C" -> "c"
    [] c = "R" -> "r"
    [] c = "W" -> "w"
    [] OTHER -> c

\* str.lower()
lower(s) == [i \in 1..Len(s) |-> LowerChar(s[i])]

IsSpace(c) == c = " "

RECURSIVE lstrip(_)
lstrip(s) == IF s # <<>> /\ IsSpace(Head(s)) THEN lstrip(Tail(s)) ELSE s

RECURSIVE rstrip(_)
rstrip(s) ==
  IF s # <<>> /\ IsSpace(s[Len(s)]) THEN rstrip(SubSeq(s, 1, Len(s) - 1)) ELSE s

\* str.strip()
strip(s) == rstrip(lstrip(s))

(***************************************************************************)
(* difflib.SequenceMatcher(None, a, b).ratio() (no junk; autojunk only     *)
(* applies to sequences of 200 elements or more).  Indices are 1-based     *)
(* and ranges inclusive: a[alo..ahi], b[blo..bhi].                          *)
(***************************************************************************)

\* length of the common run of a and b that ends at a[i], b[j] inside the window
RECURSIVE RunLen(_, _, _, _, _, _)
RunLen(a, b, i, j, alo, blo) ==
  IF i < alo \/ j < blo THEN 0
  ELSE IF a[i] # b[j] THEN 0
  ELSE 1 + RunLen(a, b, i - 1, j - 1, alo, blo)

\* the largest and the smallest element of a non-empty set of numbers
MaxOf(S) == CHOOSE k \in S : \A n \in S : n <= k
MinOf(S) == CHOOSE k \in S : \A n \in S : k <= n

\* the length of the common run ending at each pair of positions of the window
RunLens(a, b, alo, ahi, blo, bhi) ==
  [p \in (alo..ahi) \X (blo..bhi) |-> RunLen(a, b, p[1], p[2], alo, blo)]

\* of the runs of length best ending at the pairs hits, the one that ends (so
\* starts) earliest in a and, at that position i of a, earliest in b
EarliestIn(hits, i, best) ==
  <<i - best + 1, MinOf({p[2] : p \in {q \in hits : q[1] = i}}) - best + 1, best>>
EarliestOf(hits, best) == EarliestIn(hits, MinOf({p[1] : p \in hits}), best)

LongestOf(len, best, alo, blo) ==
  IF best = 0 THEN <<alo, blo, 0>>
  ELSE EarliestOf({p \in DOMAIN len : len[p] = best}, best)

LongestIn(len, alo, blo) ==
  LongestOf(len, IF DOMAIN len = {} THEN 0 ELSE MaxOf({len[p] : p \in DOMAIN len}), alo, blo)

\* find_longest_match: <<i, j, k>>, the longest block a[i..i+k-1] = b[j..j+k-1],
\* the one starting earliest in a and, of those, earliest in b; k = 0 if none
find_longest_match(a, b, alo, ahi, blo, bhi) ==
  LongestIn(RunLens(a, b, alo, ahi, blo, bhi), alo, blo)

\* get_matching_blocks, summed: the number of matched elements; m is the
\* longest match of the window, and the windows left and right of it follow
RECURSIVE MatchedCount(_, _, _, _, _, _)
RECURSIVE MatchedAround(_, _, _, _, _, _, _)
MatchedAround(a, b, alo, ahi, blo, bhi, m) ==
  IF m[3] = 0 THEN 0
  ELSE m[3] + MatchedCount(a, b, alo, m[1] - 1, blo, m[2] - 1)
            + MatchedCount(a, b, m[1] + m[3], ahi, m[2] + m[3], bhi)

MatchedCount(a, b, alo, ahi, blo, bhi) ==
  IF alo > ahi \/ blo > bhi THEN 0
  ELSE MatchedAround(a, b, alo, ahi, blo, bhi,
                     find_longest_match(a, b, alo, ahi, blo, bhi))

\* ratio(): 2.0 * matches / (len(a) + len(b)), 1.0 when both are empty;
\* the quotient is kept as the fraction <<numerator, denominator>>
ratio(a, b) ==
  LET T == Len(a) + Len(b)
  IN IF T = 0 THEN <<1, 1>>
     ELSE <<2 * MatchedCount(a, b, 1, Len(a), 1, Len(b)), T>>

\* comparisons of two such quotients (denominators are positive)
RatioGT(x, y) == x[1] * y[2] > y[1] * x[2]
RatioGE(x, y) == x[1] * y[2] >= y[1] * x[2]
RatioMax(x, y) == IF RatioGT(y, x) THEN y ELSE x

(***************************************************************************)
(* binary64 arithmetic on percentages.  A value is [k, e] = k + e * 2^-50. *)
(***************************************************************************)

\* (c / 100.0) * 100 in binary64 differs from c for these whole cents only
\* (IEEE-754 round-to-nearest of the quotient and of the product)
F64PctErr(c) ==
  CASE c = 7 -> 1
    [] c = 14 -> 2
    [] c = 28 -> 4
    [] c = 29 -> -4
    [] c = 55 -> 8
    [] c = 56 -> 8
    [] c = 57 -> -8
    [] c = 58 -> -8
    [] OTHER -> 0

\* m["yes_price"] * 100
F64Pct(c) == [k |-> c, e |-> F64PctErr(c)]

\* the spacing of binary64 numbers around d + e * 2^-50 (d > 0), in units of 2^-50
F64Ulp(d, e) ==
  LET m == IF e < 0 THEN d - 1 ELSE d
  IN IF m < 8 THEN 1
     ELSE IF m < 16 THEN 2
     ELSE IF m < 32 THEN 4
     ELSE IF m < 64 THEN 8
     ELSE 16

\* round e to a multiple of u, ties to the even multiple
F64RoundTo(e, u) ==
  LET lo == u * (e \div u)
      rem == e - lo
  IN IF 2 * rem < u THEN lo
     ELSE IF 2 * rem > u THEN lo + u
     ELSE IF (lo \div u) % 2 = 0 THEN lo ELSE lo + u

F64Neg(x) == [k |-> 0 - x.k, e |-> 0 - x.e]

\* x - y, rounded to nearest as the hardware does
F64Sub(x, y) ==
  LET d == x.k - y.k
      e == x.e - y.e
  IN IF d = 0 THEN [k |-> 0, e |-> e]
     ELSE IF d > 0 THEN [k |-> d, e |-> F64RoundTo(e, F64Ulp(d, e))]
     ELSE F64Neg([k |-> 0 - d, e |-> F64RoundTo(0 - e, F64Ulp(0 - d, 0 - e))])

\* abs(x)
F64Abs(x) == IF x.k < 0 \/ (x.k = 0 /\ x.e < 0) THEN F64Neg(x) ELSE x

\* x >= t for a whole number t
F64GeInt(x, t) == x.k > t \/ (x.k = t /\ x.e >= 0)

\* round(x, 1): every value of the model lies within 2^-44 of a whole number
F64Round1(x) == x.k

(***************************************************************************)
(* list.sort(key=..., reverse=True): a stable sort, largest key first       *)
(***************************************************************************)

\* insert <<key, item>> behind every pair whose key is at least as large
RECURSIVE InsertByKey(_, _)
InsertByKey(sorted, pair) ==
  IF sorted = <<>> THEN <<pair>>
  ELSE IF Head(sorted)[1] >= pair[1]
       THEN <<Head(sorted)>> \o InsertByKey(Tail(sorted), pair)
       ELSE <<pair>> \o sorted

RECURSIVE SortPairs(_, _)
SortPairs(pairs, acc) ==
  IF pairs = <<>> THEN acc
  ELSE SortPairs(Tail(pairs), InsertByKey(acc, Head(pairs)))

Seconds(pairs) == [i \in 1..Len(pairs) |-> pairs[i][2]]

\* items sorted by keys[i], descending, equal keys in their original order
sort_reverse(items, keys) ==
  Seconds(SortPairs([i \in 1..Len(items) |-> <<keys[i], items[i]>>], <<>>))

Abs(n) == IF n < 0 THEN 0 - n ELSE n

(***************************************************************************)
(* ANALYSIS ENGINES                                                        *)
(* A market is [id, title, event_title, subtitle, yes_price, url]; an      *)
(* absent or empty event_title / subtitle is <<>> (both are falsy).        *)
(***************************************************************************)

ARBITRAGE_THRESHOLD_PCT == 5
BIG_MOVE_THRESHOLD_PCT == 10

\* the acceptance threshold 0.45 of the matcher
MATCH_THRESHOLD == <<45, 100>>

\* if km.get("subtitle"): score = max(score, ratio(pm_norm, km["subtitle"].lower()))
WithSubtitle(km, pm_norm, score) ==
  IF km.subtitle # <<>> THEN RatioMax(score, ratio(pm_norm, lower(km.subtitle)))
  ELSE score

\* if pm.get("event_title"): score = max(score, ratio(pm["event_title"].lower(), km_norm))
WithEventTitle(pm, km_norm, score) ==
  IF pm.event_title # <<>> THEN RatioMax(score, ratio(lower(pm.event_title), km_norm))
  ELSE score

\* pm["title"].lower().strip(), km["title"].lower().strip()
title_norm(title) == strip(lower(title))

ScoreOf(pm, km, pm_norm, km_norm) ==
  WithEventTitle(pm, km_norm, WithSubtitle(km, pm_norm, ratio(pm_norm, km_norm)))

\* the score of one (pm, km) comparison: the maximum of title/title,
\* title/subtitle and event_title/title
Score(pm, km) == ScoreOf(pm, km, title_norm(pm.title), title_norm(km.title))

\* Improve with score >= best_score: of equal scores the last one wins
ImproveOrEqual(best, j, score) == IF RatioGE(score, best[2]) THEN <<j, score>> ELSE best

\* if score > best_score: best_score = score; best_match = km.  best is
\* <<best_match, best_score>>, best_match an index of kalshi_markets, 0 for None
Improve(best, j, score) == IF RatioGT(score, best[2]) THEN <<j, score>> ELSE best

\* BestMatch without the used_kalshi test
RECURSIVE BestMatch_IgnoreUsed(_, _, _, _, _)
BestMatch_IgnoreUsed(pm, kalshi_markets, used_kalshi, j, best) ==
  IF j > Len(kalshi_markets) THEN best
  ELSE BestMatch_IgnoreUsed(pm, kalshi_markets, used_kalshi, j + 1,
                            Improve(best, j, Score(pm, kalshi_markets[j])))

\* the inner loop over kalshi_markets from index j on, best being the
\* <<best_match, best_score>> so far
RECURSIVE BestMatch(_, _, _, _, _)
BestMatch(pm, kalshi_markets, used_kalshi, j, best) ==
  IF j > Len(kalshi_markets) THEN best
  ELSE BestMatch(pm, kalshi_markets, used_kalshi, j + 1,
         IF kalshi_markets[j].id \in used_kalshi THEN best
         ELSE Improve(best, j, Score(pm, kalshi_markets[j])))

\* the gap of an accepted pair, as compared to the threshold
GapOf(pm, km) == F64Abs(F64Sub(F64Pct(pm.yes_price), F64Pct(km.yes_price)))

Opportunity(pm, km) ==
  [name |-> pm.title,
   poly_price |-> F64Round1(F64Pct(pm.yes_price)),
   kalshi_price |-> F64Round1(F64Pct(km.yes_price)),
   gap_pct |-> F64Round1(GapOf(pm, km)),
   poly_url |-> pm.url,
   kalshi_url |-> km.url]

\* the pair (pm, km) is accepted: km is used, and the pair is a candidate if
\* its gap reaches the threshold.  acc is [used_kalshi, matched,
\* opportunities], matched the accepted pairs [a, b, score] (indices of the
\* two lists) in the order they were accepted
Paired(acc, pm, i, km, best, threshold_pct) ==
  [used_kalshi |-> acc.used_kalshi \cup {km.id},
   matched |-> Append(acc.matched, [a |-> i, b |-> best[1], score |-> best[2]]),
   opportunities |->
     IF F64GeInt(GapOf(pm, km), threshold_pct)
     THEN Append(acc.opportunities, Opportunity(pm, km))
     ELSE acc.opportunities]

\* Accept without the test of best_score
Accept_AnyScore(acc, pm, i, kalshi_markets, best, threshold_pct) ==
  IF best[1] # 0
  THEN Paired(acc, pm, i, kalshi_markets[best[1]], best, threshold_pct)
  ELSE acc

\* if best_match and best_score >= 0.45
Accept(acc, pm, i, kalshi_markets, best, threshold_pct) ==
  IF best[1] # 0 /\ RatioGE(best[2], MATCH_THRESHOLD)
  THEN Paired(acc, pm, i, kalshi_markets[best[1]], best, threshold_pct)
  ELSE acc

\* the outer loop over poly_markets from index i on
RECURSIVE MatchLoop(_, _, _, _, _)
MatchLoop(poly_markets, kalshi_markets, threshold_pct, i, acc) ==
  IF i > Len(poly_markets) THEN acc
  ELSE MatchLoop(poly_markets, kalshi_markets, threshold_pct, i + 1,
         Accept(acc, poly_markets[i], i, kalshi_markets,
                BestMatch(poly_markets[i], kalshi_markets, acc.used_kalshi, 1, <<0, <<0, 1>>>>),
                threshold_pct))

\* opportunities.sort(key=lambda x: x["gap_pct"], reverse=True)
SortByGap(opportunities) ==
  sort_reverse(opportunities, [i \in 1..Len(opportunities) |-> opportunities[i].gap_pct])

ArbResult(acc) == [matched |-> acc.matched, opportunities |-> SortByGap(acc.opportunities)]

\* one invocation: the pairs it accepted and the list it returns
ArbRun(poly_markets, kalshi_markets, threshold_pct) ==
  ArbResult(MatchLoop(poly_markets, kalshi_markets, threshold_pct, 1,
                      [used_kalshi |-> {}, matched |-> <<>>, opportunities |-> <<>>]))

find_arbitrage_opportunities(poly_markets, kalshi_markets, threshold_pct) ==
  ArbRun(poly_markets, kalshi_markets, threshold_pct).opportunities

\* price_history.get(mid, [])
HistoryOf(price_history, mid) ==
  IF mid \in DOMAIN price_history THEN price_history[mid] ELSE <<>>

\* the move of market m from oldest to current, appended if it is big
WithMove(moves, m, current, oldest, delta, threshold_pct) ==
  IF F64GeInt(F64Abs(delta), threshold_pct)
  THEN Append(moves, [market |-> m, old_price |-> F64Round1(oldest),
                      new_price |-> F64Round1(current), delta |-> F64Round1(delta)])
  ELSE moves

MoveBetween(moves, m, current, oldest, threshold_pct) ==
  WithMove(moves, m, current, oldest, F64Sub(current, oldest), threshold_pct)

\* if not history: continue
MoveOf(moves, m, history, threshold_pct) ==
  IF history = <<>> THEN moves
  ELSE MoveBetween(moves, m, F64Pct(m.yes_price), F64Pct(history[1].price), threshold_pct)

\* the loop of find_big_moves over all_markets from index i on
RECURSIVE MovesLoop(_, _, _, _, _)
MovesLoop(all_markets, price_history, threshold_pct, i, moves) ==
  IF i > Len(all_markets) THEN moves
  ELSE MovesLoop(all_markets, price_history, threshold_pct, i + 1,
         MoveOf(moves, all_markets[i], HistoryOf(price_history, all_markets[i].id),
                threshold_pct))

\* moves.sort(key=lambda x: abs(x["delta"]), reverse=True)
SortByDelta(moves) == sort_reverse(moves, [i \in 1..Len(moves) |-> Abs(moves[i].delta)])

find_big_moves(all_markets, price_history, threshold_pct) ==
  SortByDelta(MovesLoop(all_markets, price_history, threshold_pct, 1, <<>>))

(***************************************************************************)
(* find_correlation_anomalies                                              *)
(***************************************************************************)

CORRELATION_MOVE_PCT == 10

\* threshold_pct * 0.3 for threshold_pct = CORRELATION_MOVE_PCT: 10.0 * 0.3 is
\* exactly 3.0 in binary64
CORRELATION_LAGGARD_PCT == 3

\* the keywords as sequences of characters, pair by pair as listed
CORRELATION_HINTS ==
  <<<<<<"s", "u", "p", "r", "e", "m", "e", " ", "l", "e", "a", "d", "e", "r">>,
      <<"r", "e", "g", "i", "m", "e">>>>,
    <<<<"s", "u", "p", "r", "e", "m", "e", " ", "l", "e", "a", "d", "e", "r">>,
      <<"s", "u", "c", "c", "e", "s", "s", "i", "o", "n">>>>,
    <<<<"n", "u", "c", "l", "e", "a", "r">>,
      <<"s", "a", "n", "c", "t", "i", "o", "n", "s">>>>,
    <<<<"w", "a", "r">>,
      <<"s", "t", "r", "i", "k", "e">>>>,
    <<<<"i", "s", "r", "a", "e", "l">>,
      <<"a", "t", "t", "a", "c", "k">>>>,
    <<<<"r", "e", "g", "i", "m", "e">>,
      <<"r", "e", "v", "o", "l", "u", "t", "i", "o", "n">>>>,
    <<<<"i", "r", "g", "c">>,
      <<"r", "e", "g", "i", "m", "e">>>>,
    <<<<"m", "o", "j", "t", "a", "b", "a">>,
      <<"s", "u", "p", "r", "e", "m", "e", " ", "l", "e", "a", "d", "e", "r">>>>>>

\* the title similarity above which two markets count as correlated: 0.4
CORRELATION_SIMILARITY == <<4, 10>>

\* sub in s
Contains(s, sub) ==
  \E i \in 0..(Len(s) - Len(sub)) : SubSeq(s, i + 1, i + Len(sub)) = sub

\* the moves dict, kept as the list of its values in insertion order: a later
\* market with the id of an earlier one replaces its value in place
RECURSIVE CorrMoves(_, _, _, _)
CorrMoves(all_markets, price_history, i, moves) ==
  IF i > Len(all_markets) THEN moves
  ELSE LET m == all_markets[i]
           current == F64Pct(m.yes_price)
           history == HistoryOf(price_history, m.id)
       IN IF history = <<>>
          THEN CorrMoves(all_markets, price_history, i + 1, moves)
          ELSE LET oldest_price == F64Pct(history[1].price)
                   entry == [market |-> m, current |-> current,
                             move |-> F64Sub(current, oldest_price)]
                   at == {k \in 1..Len(moves) : moves[k].market.id = m.id}
               IN CorrMoves(all_markets, price_history, i + 1,
                    IF at = {} THEN Append(moves, entry)
                    ELSE [k \in 1..Len(moves) |-> IF k \in at THEN entry ELSE moves[k]])

is_correlated(title_a, title_b) ==
  \/ \E h \in 1..Len(CORRELATION_HINTS) :
       LET kw_a == CORRELATION_HINTS[h][1]
           kw_b == CORRELATION_HINTS[h][2]
       IN \/ Contains(title_a, kw_a) /\ Contains(title_b, kw_b)
          \/ Contains(title_a, kw_b) /\ Contains(title_b, kw_a)
  \/ RatioGT(ratio(title_a, title_b), CORRELATION_SIMILARITY)

\* the anomaly of the pair (a, b) of market_list, as a list of none or one
PairAnomaly(a, b, threshold_pct) ==
  LET big_a == F64GeInt(F64Abs(a.move), threshold_pct)
      big_b == F64GeInt(F64Abs(b.move), threshold_pct)
      small_a == ~F64GeInt(F64Abs(a.move), CORRELATION_LAGGARD_PCT)
      small_b == ~F64GeInt(F64Abs(b.move), CORRELATION_LAGGARD_PCT)
  IN IF ~is_correlated(lower(a.market.title), lower(b.market.title)) THEN <<>>
     ELSE IF big_a /\ ~big_b /\ small_b THEN <<[mover |-> a, laggard |-> b]>>
     ELSE IF big_b /\ ~big_a /\ small_a THEN <<[mover |-> b, laggard |-> a]>>
     ELSE <<>>

\* the double loop over market_list: a = market_list[i], b = market_list[j]
RECURSIVE CorrPairs(_, _, _, _, _)
CorrPairs(market_list, threshold_pct, i, j, anomalies) ==
  IF i > Len(market_list) THEN anomalies
  ELSE IF j > Len(market_list)
       THEN CorrPairs(market_list, threshold_pct, i + 1, i + 2, anomalies)
       ELSE CorrPairs(market_list, threshold_pct, i, j + 1,
                      anomalies \o PairAnomaly(market_list[i], market_list[j], threshold_pct))

\* called with the default threshold_pct only
find_correlation_anomalies(all_markets, price_history) ==
  CorrPairs(CorrMoves(all_markets, price_history, 1, <<>>), CORRELATION_MOVE_PCT, 1, 2, <<>>)

(***************************************************************************)
(* STATE PERSISTENCE: class State.  Its fields are price_history,          *)
(* sent_arb_alerts, sent_corr_alerts, sent_move_alerts and scan_count (the *)
(* news fields are not part of the alert engine).  A dict is a function    *)
(* whose DOMAIN is its key set; "t" is datetime.now(timezone.utc).         *)
(***************************************************************************)

\* the default cooldown_minutes of can_alert_arb / _corr / _move: 30, 60 and 120
\* minutes, in units of 30 minutes
ARB_COOLDOWN == 1
CORR_COOLDOWN == 2
MOVE_COOLDOWN == 4

\* timedelta(hours=25) of save(), in units of 30 minutes
RETENTION == 50

\* the per-market cap of save(), trimmed[-500:], scaled down to 2 entries
HISTORY_CAP == 2

EmptyMap == [x \in {} |-> 0]

\* d[key] = value
DictSet(d, key, value) ==
  [k \in DOMAIN d \cup {key} |-> IF k = key THEN value ELSE d[k]]

\* A record of a cooldown map is the isoformat() string of an instant, held
\* as that instant (0 and up).  What a state file can hold in its place and
\* is no such string is numbered below 0:
\*   -1  a value that is falsy (null, "", 0, [], {}): "if not last" returns True
\*   -2  a text that is no ISO timestamp: fromisoformat raises ValueError
\*   -3  a number, list or object: fromisoformat raises TypeError
\*   -4  a timestamp without UTC offset: the subtraction from the aware
\*       now raises TypeError
UnparsableRecords == {-1, -2, -3, -4}

\* can_alert_arb with the comparison >= in place of >
can_alert_arb_AtCooldown(sent_arb_alerts, key, cooldown_minutes, t) ==
  IF key \notin DOMAIN sent_arb_alerts THEN TRUE
  ELSE IF sent_arb_alerts[key] \in UnparsableRecords THEN TRUE
  ELSE t - sent_arb_alerts[key] >= cooldown_minutes

\* can_alert_corr taking a record it cannot parse for a cooldown that runs
can_alert_corr_Unparsed(sent_corr_alerts, key, cooldown_minutes, t) ==
  IF key \notin DOMAIN sent_corr_alerts THEN TRUE
  ELSE IF sent_corr_alerts[key] \in UnparsableRecords THEN FALSE
  ELSE t - sent_corr_alerts[key] > cooldown_minutes

can_alert_arb(sent_arb_alerts, key, cooldown_minutes, t) ==
  IF key \notin DOMAIN sent_arb_alerts THEN TRUE
  ELSE IF sent_arb_alerts[key] \in UnparsableRecords THEN TRUE
  ELSE t - sent_arb_alerts[key] > cooldown_minutes

mark_arb_alert(sent_arb_alerts, key, t) == DictSet(sent_arb_alerts, key, t)

can_alert_corr(sent_corr_alerts, key, cooldown_minutes, t) ==
  IF key \notin DOMAIN sent_corr_alerts THEN TRUE
  ELSE IF sent_corr_alerts[key] \in UnparsableRecords THEN TRUE
  ELSE t - sent_corr_alerts[key] > cooldown_minutes

mark_corr_alert(sent_corr_alerts, key, t) == DictSet(sent_corr_alerts, key, t)

can_alert_move(sent_move_alerts, market_id, cooldown_minutes, t) ==
  IF market_id \notin DOMAIN sent_move_alerts THEN TRUE
  ELSE IF sent_move_alerts[market_id] \in UnparsableRecords THEN TRUE
  ELSE t - sent_move_alerts[market_id] > cooldown_minutes

mark_move_alert(sent_move_alerts, market_id, t) == DictSet(sent_move_alerts, market_id, t)

\* record_price cutting the history to its last HISTORY_CAP entries
record_price_Capped(price_history, market_id, price, t) ==
  DictSet(price_history, market_id,
          IF Len(HistoryOf(price_history, market_id)) < HISTORY_CAP
          THEN Append(HistoryOf(price_history, market_id), [price |-> price, ts |-> t])
          ELSE Append(Tail(HistoryOf(price_history, market_id)), [price |-> price, ts |-> t]))

\* record_price: append {price, ts: now} to the market's list
record_price(price_history, market_id, price, t) ==
  DictSet(price_history, market_id,
          Append(HistoryOf(price_history, market_id), [price |-> price, ts |-> t]))

\* s.get(k, default)
Get(s, k, default) == IF k \in DOMAIN s THEN s[k] ELSE default

\* entries[:n]
LastN_First(entries, n) ==
  IF Len(entries) <= n THEN entries ELSE SubSeq(entries, 1, n)

\* entries[-n:]
LastN(entries, n) ==
  IF Len(entries) <= n THEN entries
  ELSE SubSeq(entries, Len(entries) - n + 1, Len(entries))

\* [e for e in entries if e.get("ts", "") > cutoff]: timestamps are isoformat
\* strings of UTC instants, whose string order is the order of the instants
NewerThan(entries, cutoff) == SelectSeq(entries, LAMBDA e : e.ts > cutoff)

\* trimmed_history with no trimming at all
trimmed_history_KeepAll(price_history, t) == price_history

\* trimmed_history of save(): per market the entries newer than the cutoff, the
\* last HISTORY_CAP of them, and no key for a market left with none
trimmed_history(price_history, t) ==
  LET cutoff == t - RETENTION
      kept == {mid \in DOMAIN price_history : NewerThan(price_history[mid], cutoff) # <<>>}
  IN [mid \in kept |-> LastN(NewerThan(price_history[mid], cutoff), HISTORY_CAP)]

\* the state file: [kind |-> "missing"], [kind |-> "partial"] (empty or cut
\* short: json.load raises JSONDecodeError), [kind |-> "array"] (valid JSON
\* that is no object, as [1] or null), or [kind |-> "doc", doc |-> d], a JSON
\* object d as a function from its keys.  json.dump followed by json.load
\* returns the same strings, integers and floats, so d holds the values as
\* they are in memory.
MissingFile == [kind |-> "missing"]
PartialFile == [kind |-> "partial"]
ArrayFile == [kind |-> "array"]
DocFile(d) == [kind |-> "doc", doc |-> d]

\* the fields of a State object after __init__ and before _load
EmptyState ==
  [price_history |-> EmptyMap, sent_arb_alerts |-> EmptyMap,
   sent_corr_alerts |-> EmptyMap, sent_move_alerts |-> EmptyMap, scan_count |-> 0]

\* the document save() writes for the State st at instant t
save_document(st, t) ==
  [price_history |-> trimmed_history(st.price_history, t),
   sent_arb_alerts |-> st.sent_arb_alerts,
   sent_corr_alerts |-> st.sent_corr_alerts,
   sent_move_alerts |-> st.sent_move_alerts,
   scan_count |-> st.scan_count]

\* State._load: the fields of the State it leaves.  A missing file leaves the
\* defaults; json.load failing, or s.get failing on a non-object, is caught
\* before any field is assigned; an object sets every field by s.get.
State_load(f) ==
  IF f.kind = "doc"
  THEN [price_history |-> Get(f.doc, "price_history", EmptyMap),
        sent_arb_alerts |-> Get(f.doc, "sent_arb_alerts", EmptyMap),
        sent_corr_alerts |-> Get(f.doc, "sent_corr_alerts", EmptyMap),
        sent_move_alerts |-> Get(f.doc, "sent_move_alerts", EmptyMap),
        scan_count |-> Get(f.doc, "scan_count", 0)]
  ELSE EmptyState

\* BotState (state.py): the _state dict after __init__ and before _load
BotDefaults == [previous_prices |-> EmptyMap, run_count |-> 0]

\* dict.update
DictUpdate(d, other) ==
  [k \in DOMAIN d \cup DOMAIN other |-> IF k \in DOMAIN other THEN other[k] ELSE d[k]]

\* BotState.__init__ with _load: the object built, or the exception leaving the
\* constructor.  Only json.JSONDecodeError and OSError are caught, so the
\* TypeError or ValueError of _state.update(saved) on a non-object is not.
BotState_load(f) ==
  IF f.kind \in {"missing", "partial"} THEN [status |-> "ok", state |-> BotDefaults]
  ELSE IF f.kind = "array" THEN [status |-> "raised"]
  ELSE [status |-> "ok", state |-> DictUpdate(BotDefaults, f.doc)]

\* BotState.mark_run
mark_run(bot_state) == [bot_state EXCEPT !.run_count = @ + 1]

\* the lengths 5000 and 3000 of mark_rss_seen, scaled down
SEEN_GUIDS_MAX == 4
SEEN_GUIDS_KEEP == 2

\* BotState.is_rss_seen
is_rss_seen(bot_state, guid) ==
  \E i \in 1..Len(bot_state.seen_rss_guids) : bot_state.seen_rss_guids[i] = guid

\* mark_rss_seen keeping the oldest GUIDs ([:3000]) when it cuts
mark_rss_seen_KeepOldest(bot_state, guid) ==
  LET appended == Append(bot_state.seen_rss_guids, guid)
  IN [bot_state EXCEPT !.seen_rss_guids =
        IF Len(appended) > SEEN_GUIDS_MAX THEN SubSeq(appended, 1, SEEN_GUIDS_KEEP)
        ELSE appended]

\* BotState.mark_rss_seen: append, then seen_rss_guids[-3000:] when the list
\* holds more than 5000
mark_rss_seen(bot_state, guid) ==
  LET appended == Append(bot_state.seen_rss_guids, guid)
  IN [bot_state EXCEPT !.seen_rss_guids =
        IF Len(appended) > SEEN_GUIDS_MAX
        THEN SubSeq(appended, Len(appended) - SEEN_GUIDS_KEEP + 1, Len(appended))
        ELSE appended]

\* update_prices without the trim of market_info
update_prices_NoTrim(bot_state, new_prices, info) ==
  [bot_state EXCEPT !.previous_prices = new_prices,
                    !.market_info = DictUpdate(@, info)]

\* BotState.update_prices: previous_prices is replaced, market_info is
\* updated with info and then cut to the ids of new_prices
update_prices(bot_state, new_prices, info) ==
  LET updated == DictUpdate(bot_state.market_info, info)
  IN [bot_state EXCEPT !.previous_prices = new_prices,
                       !.market_info =
                          [k \in DOMAIN updated \cap DOMAIN new_prices |-> updated[k]]]

(***************************************************************************)
(* MAIN LOOPS: market_scan.  A coroutine runs without interruption from    *)
(* one await to the next; a cycle's locals are [pc, n, poly, kalshi, todo, *)
(* i]: pc the await it is suspended at, n the number of the cycle, todo    *)
(* the candidate list being walked and i the index of the candidate whose  *)
(* analysis and notification are awaited.                                  *)
(***************************************************************************)

\* state.scan_count % 10 and % 120
SNAPSHOT_EVERY == 10
HEARTBEAT_EVERY == 120

\* items[:n]
FirstN(items, n) == SubSeq(items, 1, IF Len(items) < n THEN Len(items) ELSE n)

\* the alert keys
ArbKey(opp) == FirstN(opp.name, 30)
MoveKey(move) == move.market.id
CorrKey(anomaly) == anomaly.mover.market.id \o ":" \o anomaly.laggard.market.id

\* for m in markets: state.record_price(m["id"], m["yes_price"])
RECURSIVE RecordAll(_, _, _, _)
RecordAll(price_history, markets, i, t) ==
  IF i > Len(markets) THEN price_history
  ELSE RecordAll(record_price(price_history, markets[i].id, markets[i].yes_price, t),
                 markets, i + 1, t)

\* whether the cooldown lets the candidate through
CanAlert(cls, st, candidate, t) ==
  IF cls = "arb" THEN can_alert_arb(st.sent_arb_alerts, ArbKey(candidate), ARB_COOLDOWN, t)
  ELSE IF cls = "move"
       THEN can_alert_move(st.sent_move_alerts, MoveKey(candidate), MOVE_COOLDOWN, t)
       ELSE can_alert_corr(st.sent_corr_alerts, CorrKey(candidate), CORR_COOLDOWN, t)

\* the loop "for c in todo: if not can_alert(c): continue" from the element
\* after index i on: the index of the first candidate let through, or 0
FirstOf(through) == IF through = {} THEN 0 ELSE MinOf(through)
NextToAlert(cls, st, todo, i, t) ==
  FirstOf({j \in (i + 1)..Len(todo) : CanAlert(cls, st, todo[j], t)})


IdleScan ==
  [pc |-> "idle", n |-> 0, poly |-> <<>>, kalshi |-> <<>>, todo |-> <<>>, i |-> 0]

AwaitAt(thr, at, todo, i) == [thr EXCEPT !.pc = at, !.todo = todo, !.i = i]

\* the cycle awaits candidate j of its list, or goes on to onward if j = 0
AwaitOr(thr, at, j, onward) == IF j # 0 THEN AwaitAt(thr, at, thr.todo, j) ELSE onward

\* The cycle thr, with the State st at instant t, runs on to its next await
\* or to the open() of state.save() (pc "dump"), from ...
\* ... after the snapshot
AfterSnapshot(thr, st) ==
  IF st.scan_count % HEARTBEAT_EVERY = 0 THEN AwaitAt(thr, "heartbeat", <<>>, 0)
  ELSE AwaitAt(thr, "dump", <<>>, 0)

\* ... after the correlation loop
AfterCorr(thr, st) ==
  IF st.scan_count % SNAPSHOT_EVERY = 0 THEN AwaitAt(thr, "snapshot", <<>>, 0)
  ELSE AfterSnapshot(thr, st)

\* ... inside the correlation loop, behind anomaly thr.i
ResumeCorr(thr, st, t) ==
  AwaitOr(thr, "corr", NextToAlert("corr", st, thr.todo, thr.i, t), AfterCorr(thr, st))

\* ... the call of find_correlation_anomalies
EnterCorr(thr, st, t) ==
  ResumeCorr(AwaitAt(thr, "corr",
                     FirstN(find_correlation_anomalies(thr.poly \o thr.kalshi,
                                                       st.price_history), 2), 0),
             st, t)

\* ... inside the big-move loop, behind move thr.i
ResumeMoves(thr, st, t) ==
  AwaitOr(thr, "move", NextToAlert("move", st, thr.todo, thr.i, t), EnterCorr(thr, st, t))

\* ... the call of find_big_moves
WithBigMoves(thr, st, t, big_moves) ==
  IF big_moves # <<>> THEN AwaitAt(thr, "news", FirstN(big_moves, 3), 0)
  ELSE EnterCorr(thr, st, t)

EnterMoves(thr, st, t) ==
  WithBigMoves(thr, st, t, find_big_moves(thr.poly \o thr.kalshi, st.price_history,
                                          BIG_MOVE_THRESHOLD_PCT))

\* ... inside the arbitrage loop, behind opportunity thr.i
ResumeArb(thr, st, t) ==
  AwaitOr(thr, "arb", NextToAlert("arb", st, thr.todo, thr.i, t), EnterMoves(thr, st, t))

\* ... the call of find_arbitrage_opportunities
EnterArb(thr, st, t) ==
  ResumeArb(AwaitAt(thr, "arb",
                    FirstN(find_arbitrage_opportunities(thr.poly, thr.kalshi,
                                                        ARBITRAGE_THRESHOLD_PCT), 3), 0),
            st, t)

(***************************************************************************)
(* State of the model                                                      *)
(***************************************************************************)

VARIABLES
  \* one call of find_arbitrage_opportunities
  poly_markets,     \* the Polymarket list
  kalshi_markets,   \* the Kalshi list
  threshold_pct,    \* its threshold_pct argument
  a_side,           \* "none" before the call, then the platform passed as first argument
  matched,          \* the pairs the call accepted: [a, b, score], indices of the two arguments
  opportunities,    \* the list it returned
  \* one call of find_big_moves
  all_markets,      \* its all_markets argument
  moves_called,     \* whether the call has been made
  moves,            \* the list it returned
  \* one call of find_correlation_anomalies, on the same arguments
  anomalies,        \* the list it returned
  \* the State object
  price_history,    \* market id -> list of [price, ts]
  sent_arb_alerts,  \* alert key -> last_alert_ts
  sent_corr_alerts, \* alert key -> last_alert_ts
  sent_move_alerts, \* market id -> last_alert_ts
  scan_count,
  \* the environment
  now,              \* the clock, datetime.now(timezone.utc)
  file,             \* the state file, STATE_FILE
  \* objects built and calls made from outside (SpecPersist)
  built,            \* the last constructor call: which class, from which file, how it ended
                    \* (in SpecRss and SpecPrices: the last BotState call and its arguments)
                    \* (class "scanned": a State on which a cycle has then run)
  bot,              \* the _state of the BotState object
  snap,             \* the State and the instant of the last save() whose file is still in place
  \* the process (Spec)
  pc,               \* where main() is: "down" (no process), "init", "init_dump", "startup", "running"
  scan,             \* the market_scan cycle of each thread: locals and the await it is at
  run,              \* how many times the process was started
  cycles,           \* how many market_scan cycles were started, over all runs
  alerts,           \* per class, the alerts sent: [key, at, run, n]
  persisted,        \* per class, the cooldown records completed saves wrote: [key, at, run]
  committed,        \* the file as the last completed save left it
  responses,        \* what the APIs answered to the requests of cycle responses.n (SpecFetch)
  \* calls of can_alert_* / mark_*_alert made from outside (SpecCooldown)
  answer,           \* the last can_alert_* call and what it returned
  fired,            \* per class and key, the instant of the last mark_*_alert call
  sending           \* the Notifier.send call in progress and the messages it delivered (SpecSend)

detvars == <<poly_markets, kalshi_markets, threshold_pct, a_side, matched, opportunities>>
movevars == <<all_markets, moves_called, moves, anomalies>>
statevars == <<price_history, sent_arb_alerts, sent_corr_alerts, sent_move_alerts, scan_count>>
persvars == <<built, bot, snap>>
apivars == <<answer, fired, sending>>
procvars == <<pc, scan, run, cycles, alerts, persisted, committed, responses>>
vars == <<detvars, movevars, statevars, now, file, persvars, apivars, procvars>>

Classes == {"arb", "corr", "move"}
\* what the process sends that is logged: the alerts of the three classes and
\* the degraded-mode alert of a failed cycle
Channels == Classes \cup {"degraded"}
NoAnswer == [cls |-> "none"]
\* no Notifier.send call was made
NoSend == [pc |-> "idle"]

\* State.__init__ before _load
FreshState ==
  /\ price_history = EmptyMap
  /\ sent_arb_alerts = EmptyMap
  /\ sent_corr_alerts = EmptyMap
  /\ sent_move_alerts = EmptyMap
  /\ scan_count = 0

NoApiCall ==
  /\ answer = NoAnswer
  /\ fired = [c \in Classes |-> EmptyMap]
  /\ sending = NoSend

Threads == {"direct", "job"}

\* no request has been answered
NoResponses == [n |-> 0]

\* no process has ever been started
NoProcess ==
  /\ pc = "down"
  /\ scan = [th \in Threads |-> IdleScan]
  /\ run = 0
  /\ cycles = 0
  /\ alerts = [c \in Channels |-> {}]
  /\ persisted = [c \in Classes |-> {}]
  /\ committed = file
  /\ responses = NoResponses

\* the process is not between the open() and the end of json.dump of a save()
NoDump == pc # "init_dump" /\ \A th \in Threads : scan[th].pc # "dump"

NotBuilt == [cls |-> "none"]
NoSnap == [valid |-> FALSE]

NoPersistCall ==
  /\ built = NotBuilt
  /\ bot = BotDefaults
  /\ snap = NoSnap

\* the cooldown map of a class
SentMap(cls) ==
  IF cls = "arb" THEN sent_arb_alerts
  ELSE IF cls = "corr" THEN sent_corr_alerts
  ELSE sent_move_alerts

\* the fields of the State object
StateNow ==
  [price_history |-> price_history, sent_arb_alerts |-> sent_arb_alerts,
   sent_corr_alerts |-> sent_corr_alerts, sent_move_alerts |-> sent_move_alerts,
   scan_count |-> scan_count]

\* the State object becomes st
StateBecomes(st) ==
  /\ price_history' = st.price_history
  /\ sent_arb_alerts' = st.sent_arb_alerts
  /\ sent_corr_alerts' = st.sent_corr_alerts
  /\ sent_move_alerts' = st.sent_move_alerts
  /\ scan_count' = st.scan_count

(***************************************************************************)
(* Bounded inputs of the detectors                                         *)
(***************************************************************************)

\* the longest list of markets one platform returns
MaxMarkets == 2

Titles == {<<"a", "b">>, <<"a", "b", "c">>, <<"c", "c">>}
EventTitles == {<<>>, <<"C", "c">>}
Subtitles == {<<>>, <<"a", "b", " ">>}
ArbPrices == {55, 62}
ArbThresholds == {5, 7, 8}

PolyId(i) == IF i = 1 THEN "poly_1" ELSE IF i = 2 THEN "poly_2" ELSE "poly_3"
KalshiId(i) == IF i = 1 THEN "kalshi_1" ELSE IF i = 2 THEN "kalshi_2" ELSE "kalshi_3"

\* a market as fetch_polymarket_iran builds it: no subtitle
PolyShapes == [title : Titles, event_title : EventTitles, yes_price : ArbPrices]
PolyMarket(i, f) ==
  [id |-> PolyId(i), title |-> f.title, event_title |-> f.event_title,
   subtitle |-> <<>>, yes_price |-> f.yes_price, url |-> <<"url", "poly", i>>]

\* a market as fetch_kalshi_iran builds it: event_title is the title, and the
\* id is "kalshi_" + m.get("id", ""), which two entries of one batch may share
KalshiPrices == {55}
KalshiShapes == [title : Titles, subtitle : Subtitles, yes_price : KalshiPrices, n : 1..MaxMarkets]
KalshiMarket(i, f) ==
  [id |-> KalshiId(f.n), title |-> f.title, event_title |-> f.title,
   subtitle |-> f.subtitle, yes_price |-> f.yes_price, url |-> <<"url", "kalshi", i>>]

PolyLists ==
  UNION {{[i \in 1..n |-> PolyMarket(i, f[i])] : f \in [1..n -> PolyShapes]} :
         n \in 0..MaxMarkets}

KalshiLists ==
  UNION {{[i \in 1..n |-> KalshiMarket(i, f[i])] :
          f \in {g \in [1..n -> KalshiShapes] : \A i \in 1..n : g[i].n <= i}} :
         n \in 0..MaxMarkets}

MoveIds == {"m1", "m2", "m3"}
MovePrices == {40, 55, 65}
MoveThresholds == {10, 20}

\* the markets find_big_moves is given: one per id, in a fixed order
MoveMarket(id, price) ==
  [id |-> id, title |-> <<id>>, event_title |-> <<>>, subtitle |-> <<>>,
   yes_price |-> price, url |-> <<"url", id>>]
MoveLists ==
  {<<>>} \cup {<<MoveMarket("m1", p)>> : p \in MovePrices}
  \cup {<<MoveMarket("m1", p), MoveMarket("m2", q)>> : p \in MovePrices, q \in MovePrices}
  \cup {<<MoveMarket("m2", p), MoveMarket("m1", q), MoveMarket("m3", r)>> :
          p \in MovePrices, q \in MovePrices, r \in {55}}

\* the histories it is given: per market none, one entry, or an older entry
\* followed by one more
MoveHistoryOf ==
  {<<>>} \cup {<<[price |-> p, ts |-> 1]>> : p \in MovePrices}
  \cup {<<[price |-> p, ts |-> 1], [price |-> 55, ts |-> 2]>> : p \in MovePrices}
MoveHistories ==
  UNION {[ids -> MoveHistoryOf \ {<<>>}] : ids \in SUBSET {"m1", "m2"}}

NoDetCall ==
  /\ poly_markets = <<>>
  /\ kalshi_markets = <<>>
  /\ threshold_pct = ARBITRAGE_THRESHOLD_PCT
  /\ a_side = "none"
  /\ matched = <<>>
  /\ opportunities = <<>>

NoMoveCall ==
  /\ all_markets = <<>>
  /\ moves_called = FALSE
  /\ moves = <<>>
  /\ anomalies = <<>>

(***************************************************************************)
(* MARKET DATA FETCHING.  A JSON value of an API response is [t |-> "none"] *)
(* (absent or null), [t |-> "num", v |-> cents], or [t |-> "str"] (a text   *)
(* that is no number).  A response is [kind |-> "raised"] when the request  *)
(* raises, else [kind |-> "http", status, data].  An entry carries iran,    *)
(* whether is_iran_market and not is_expired_market hold for it.           *)
(***************************************************************************)

JsonNone == [t |-> "none"]
JsonNum(c) == [t |-> "num", v |-> c]
JsonStr == [t |-> "str"]

\* x or y
Or(x, y) == IF x.t = "none" \/ (x.t = "num" /\ x.v = 0) THEN y ELSE x

\* the market of a Kalshi entry; yes_price is yp / 100.0, kept in cents
KalshiOf(m, yp) ==
  [id |-> KalshiId(m.id), title |-> m.title, event_title |-> m.title,
   subtitle |-> m.subtitle, yes_price |-> yp.v, url |-> <<"url", "kalshi", m.id>>]

\* one entry: skipped by the filter, appended, or the division raising
\* TypeError, which ends the loop in the except of the function
KalshiEntry(markets, m, yp) ==
  IF ~m.iran THEN [markets |-> markets, raised |-> FALSE]
  ELSE IF yp.t = "str" THEN [markets |-> markets, raised |-> TRUE]
  ELSE [markets |-> Append(markets, KalshiOf(m, yp)), raised |-> FALSE]

\* for m in data.get("markets", [])
RECURSIVE KalshiLoop(_, _, _)
KalshiLoop(entries, i, acc) ==
  IF i > Len(entries) \/ acc.raised THEN acc.markets
  ELSE KalshiLoop(entries, i + 1,
         KalshiEntry(acc.markets, entries[i],
                     Or(Or(entries[i].yes_ask, entries[i].last_price), JsonNum(0))))

fetch_kalshi_iran(r) ==
  IF r.kind = "raised" THEN <<>>
  ELSE IF r.status # 200 THEN <<>>
  ELSE KalshiLoop(r.data, 1, [markets |-> <<>>, raised |-> FALSE])

\* outcomePrices of a Polymarket market: [t |-> "none"] (absent, empty or not
\* JSON, or a list whose first element is no number), [t |-> "list", v]
\* (a list of prices, in cents), [t |-> "scalar"] (JSON that is no list)
\* the price from bestAsk or lastTradePrice: none, a number, or float() raising
PolyFallback(yp) ==
  IF yp.t = "none" \/ (yp.t = "num" /\ yp.v = 0) THEN [t |-> "skip"]
  ELSE IF yp.t = "str" THEN [t |-> "raise"]
  ELSE yp

\* outcomes[0] of a market in the main loop, where len() of a scalar raises
\* TypeError past the except of the parse
PolyOutcome(m) ==
  IF m.outcomePrices.t = "scalar" THEN [t |-> "raise"]
  ELSE IF m.outcomePrices.t = "list" /\ m.outcomePrices.v # <<>>
       THEN JsonNum(m.outcomePrices.v[1])
       ELSE PolyFallback(Or(m.bestAsk, m.lastTradePrice))

\* outcomes[0] of a market in the search loop, whose parse catches Exception
PolySearchOutcome(m) ==
  IF m.outcomePrices.t = "list" /\ m.outcomePrices.v # <<>>
  THEN JsonNum(m.outcomePrices.v[1])
  ELSE PolyFallback(Or(m.bestAsk, m.lastTradePrice))

\* m.get('id', ev.get('id', '')), an entry without id having id 0
PolyEntryId(ev, m) == IF m.id = 0 THEN ev.id ELSE m.id

\* the market of entry m of event ev
PolyOf(ev, m, price) ==
  [id |-> PolyId(PolyEntryId(ev, m)), title |-> m.question, event_title |-> ev.title,
   subtitle |-> <<>>, yes_price |-> price.v, url |-> <<"url", "poly", ev.id>>]

\* one market of an event: skipped, appended, or an exception
PolyEntry(markets, ev, m, price) ==
  IF price.t = "raise" THEN [markets |-> markets, raised |-> TRUE]
  ELSE IF price.t = "skip" \/ m.expired THEN [markets |-> markets, raised |-> FALSE]
  ELSE [markets |-> Append(markets, PolyOf(ev, m, price)), raised |-> FALSE]

\* for ev in data: for m in ev_markets, from market j of event i on; search
\* tells which of the two loops it is, the second one skipping an event
\* already found (the ids of the model are no substrings of one another)
RECURSIVE PolyLoop(_, _, _, _, _)
PolyLoop(data, i, j, acc, search) ==
  IF i > Len(data) \/ acc.raised THEN acc
  ELSE IF ~data[i].iran \/ j > Len(data[i].markets)
            \/ (search /\ j = 1 /\ \E k \in 1..Len(acc.markets) : acc.markets[k].id = PolyId(data[i].id))
       THEN PolyLoop(data, i + 1, 1, acc, search)
       ELSE PolyLoop(data, i, j + 1,
              PolyEntry(acc.markets, data[i], data[i].markets[j],
                        IF search THEN PolySearchOutcome(data[i].markets[j])
                        ELSE PolyOutcome(data[i].markets[j])),
              search)

\* for query_term in [...]: a request that fails, or an exception in its
\* loop, ends that query only and keeps what was appended
RECURSIVE PolySearch(_, _, _)
PolySearch(searches, q, markets) ==
  IF q > Len(searches) THEN markets
  ELSE PolySearch(searches, q + 1,
         IF searches[q].kind = "raised" THEN markets
         ELSE IF searches[q].status # 200 THEN markets
         ELSE PolyLoop(searches[q].data, 1, 1,
                       [markets |-> markets, raised |-> FALSE], TRUE).markets)

\* Deduplicate by id: the first market of every id
Unique(markets) ==
  SelectSeq([k \in 1..Len(markets) |-> [m |-> markets[k], k |-> k]],
            LAMBDA e : \A h \in 1..(e.k - 1) : markets[h].id # e.m.id)

UniqueMarkets(markets) ==
  [k \in 1..Len(Unique(markets)) |-> Unique(markets)[k].m]

\* the rest of the function behind the main loop, unless that loop raised
PolyAfterMain(acc, searches) ==
  IF acc.raised THEN acc.markets
  ELSE UniqueMarkets(PolySearch(searches, 1, acc.markets))

\* r is the response to the first request, searches those to the three
\* tag queries
fetch_polymarket_iran(r, searches) ==
  IF r.kind = "raised" THEN <<>>
  ELSE IF r.status # 200 THEN <<>>
  ELSE PolyAfterMain(PolyLoop(r.data, 1, 1, [markets |-> <<>>, raised |-> FALSE], FALSE),
                     searches)

(***************************************************************************)
(* SpecArb: one call of find_arbitrage_opportunities on bounded inputs,    *)
(* with either platform's list as the first argument                       *)
(***************************************************************************)

InitArb ==
  /\ poly_markets \in PolyLists
  /\ kalshi_markets \in KalshiLists
  /\ threshold_pct = ARBITRAGE_THRESHOLD_PCT
  /\ a_side = "none"
  /\ matched = <<>>
  /\ opportunities = <<>>
  /\ NoMoveCall
  /\ FreshState
  /\ now = 0
  /\ file = MissingFile
  /\ NoPersistCall
  /\ NoProcess
  /\ NoApiCall

\* the call returns
Returned(result) ==
  /\ matched' = result.matched
  /\ opportunities' = result.opportunities

CallArb(first, second, side, th) ==
  /\ a_side = "none"
  /\ a_side' = side
  /\ threshold_pct' = th
  /\ Returned(ArbRun(first, second, th))
  /\ UNCHANGED <<poly_markets, kalshi_markets, movevars, statevars, now, file, persvars, apivars, procvars>>

CallArbPolyFirst ==
  \E th \in ArbThresholds : CallArb(poly_markets, kalshi_markets, "poly", th)

\* the same call with the lists exchanged and the default threshold
CallArbKalshiFirst ==
  CallArb(kalshi_markets, poly_markets, "kalshi", ARBITRAGE_THRESHOLD_PCT)

NextArb == CallArbPolyFirst \/ CallArbKalshiFirst

SpecArb == InitArb /\ [][NextArb]_vars

(***************************************************************************)
(* SpecNorm: one call of find_arbitrage_opportunities on one market of     *)
(* each platform, whose text fields vary in case, in whitespace and in     *)
(* the words of a question                                                 *)
(***************************************************************************)

\* "ab", " Ab", "ab ", "a  b", "is ab?", "is is ab", "ab??"
NormTitles ==
  {<<"a", "b">>, <<" ", "A", "b">>, <<"a", "b", " ">>, <<"a", " ", " ", "b">>,
   <<"i", "s", " ", "a", "b", "?">>, <<"i", "s", " ", "i", "s", " ", "a", "b">>,
   <<"a", "b", "?", "?">>}

\* the other fields that are compared: absent, or a title in another case
\* or with whitespace around it
NormAlternates == {<<>>, <<" ", "A", "b">>, <<"a", "b", " ">>, <<"A", "B">>}

InitNorm ==
  /\ \E t \in NormTitles, e \in NormAlternates :
       poly_markets = <<PolyMarket(1, [title |-> t, event_title |-> e, yes_price |-> 62])>>
  /\ \E t \in NormTitles \cup {<<"c", "c">>}, sub \in NormAlternates :
       kalshi_markets =
         <<KalshiMarket(1, [title |-> t, subtitle |-> sub, yes_price |-> 55, n |-> 1])>>
  /\ threshold_pct = ARBITRAGE_THRESHOLD_PCT
  /\ a_side = "none"
  /\ matched = <<>>
  /\ opportunities = <<>>
  /\ NoMoveCall
  /\ FreshState
  /\ now = 0
  /\ file = MissingFile
  /\ NoPersistCall
  /\ NoProcess
  /\ NoApiCall

NextNorm == CallArbPolyFirst \/ CallArbKalshiFirst

SpecNorm == InitNorm /\ [][NextNorm]_vars

\* the two arguments of the call that was made
ArgA == IF a_side = "kalshi" THEN kalshi_markets ELSE poly_markets
ArgB == IF a_side = "kalshi" THEN poly_markets ELSE kalshi_markets

(***************************************************************************)
(* SpecMoves: one call of find_big_moves on bounded inputs                 *)
(***************************************************************************)

InitMoves ==
  /\ NoDetCall
  /\ all_markets \in MoveLists
  /\ price_history \in MoveHistories
  /\ moves_called = FALSE
  /\ moves = <<>>
  /\ anomalies = <<>>
  /\ sent_arb_alerts = EmptyMap
  /\ sent_corr_alerts = EmptyMap
  /\ sent_move_alerts = EmptyMap
  /\ scan_count = 0
  /\ now = 2
  /\ file = MissingFile
  /\ NoPersistCall
  /\ NoProcess
  /\ NoApiCall

CallMoves ==
  /\ ~moves_called
  /\ moves_called' = TRUE
  /\ \E th \in MoveThresholds :
       /\ threshold_pct' = th
       /\ moves' = find_big_moves(all_markets, price_history, th)
  /\ UNCHANGED <<poly_markets, kalshi_markets, a_side, matched, opportunities,
                 all_markets, anomalies, statevars, now, file, persvars, apivars, procvars>>

NextMoves == CallMoves

SpecMoves == InitMoves /\ [][NextMoves]_vars

(***************************************************************************)
(* SpecCorr: the correlation step of market_scan cycles that follow one     *)
(* another, on two markets                                                 *)
(***************************************************************************)

\* how many more cycles follow the first
MaxCorrCycles == 1

\* the title of the second market: linked to "war" by a keyword pair, by
\* similarity after lower(), or not at all
CorrTitles == {<<"s", "t", "r", "i", "k", "e">>, <<"W", "A", "R">>, <<"x", "y">>}

\* first history entry and current price of a market, in cents:
\* +12, -12, +11, +10, +3 (twice), +1, 0
CorrShapes ==
  {<<40, 52>>, <<52, 40>>, <<55, 66>>, <<40, 50>>, <<55, 58>>, <<40, 43>>,
   <<55, 56>>, <<55, 55>>}

CorrMarket(id, title, price) == [MoveMarket(id, price) EXCEPT !.title = title]

InitCorr ==
  /\ NoDetCall
  /\ \E title \in CorrTitles, sa \in CorrShapes, sb \in CorrShapes :
       /\ all_markets = <<CorrMarket("m1", <<"w", "a", "r">>, sa[2]),
                          CorrMarket("m2", title, sb[2])>>
       /\ price_history = [mid \in {"m1", "m2"} |->
                             <<[price |-> IF mid = "m1" THEN sa[1] ELSE sb[1], ts |-> 1]>>]
  /\ moves_called = FALSE
  /\ moves = <<>>
  /\ anomalies = <<>>
  /\ sent_arb_alerts = EmptyMap
  /\ sent_corr_alerts = EmptyMap
  /\ sent_move_alerts = EmptyMap
  /\ scan_count = 0
  /\ now = 2
  /\ file = MissingFile
  /\ NoPersistCall
  /\ NoProcess
  /\ NoApiCall

\* the prices the next cycle may fetch
CorrNextPrices == {40, 55, 66}

\* one pass of the loop over anomalies[:2]: unless the key is in cooldown,
\* send_correlation is awaited and the key is marked.  Notifier.send returns
\* True, or False after a TelegramError (delivered); send_correlation drops
\* that result.  st is [sent, log]
CorrAlert(st, anomaly, t, delivered) ==
  IF can_alert_corr(st.sent, CorrKey(anomaly), CORR_COOLDOWN, t)
  THEN [sent |-> mark_corr_alert(st.sent, CorrKey(anomaly), t),
        log |-> st.log \cup {[mover |-> anomaly.mover.market.id,
                              laggard |-> anomaly.laggard.market.id,
                              key |-> CorrKey(anomaly), at |-> t,
                              delivered |-> delivered]}]
  ELSE st

RECURSIVE CorrLoop(_, _, _, _, _)
CorrLoop(st, todo, i, t, delivered) ==
  IF i > Len(todo) THEN st
  ELSE CorrLoop(CorrAlert(st, todo[i], t, delivered), todo, i + 1, t, delivered)

\* the State and the log of alerts after the loop over the anomalies found
CorrLooped(found, delivered) ==
  /\ anomalies' = found
  /\ sent_corr_alerts' =
       CorrLoop([sent |-> sent_corr_alerts, log |-> alerts["corr"]],
                FirstN(found, 2), 1, now, delivered).sent
  /\ alerts' = [alerts EXCEPT !["corr"] =
       CorrLoop([sent |-> sent_corr_alerts, log |-> alerts["corr"]],
                FirstN(found, 2), 1, now, delivered).log]

\* market_scan: find_correlation_anomalies(all_markets, state.price_history)
\* and the loop that alerts on what it returned
ScanCorr ==
  /\ ~moves_called
  /\ moves_called' = TRUE
  /\ \E delivered \in BOOLEAN :
       CorrLooped(find_correlation_anomalies(all_markets, price_history), delivered)
  /\ UNCHANGED <<detvars, all_markets, moves, price_history, sent_arb_alerts,
                 sent_move_alerts, scan_count, now, file, persvars, apivars,
                 pc, scan, run, cycles, persisted, committed, responses>>

\* the next cycle, at once or half an hour later: its fetches return the two
\* markets at new prices, which are recorded
CorrFetched ==
  /\ moves_called
  /\ cycles < MaxCorrCycles
  /\ cycles' = cycles + 1
  /\ moves_called' = FALSE
  /\ \E pa \in CorrNextPrices, pb \in CorrNextPrices, t \in {now, now + 1} :
       /\ now' = t
       /\ all_markets' = <<[all_markets[1] EXCEPT !.yes_price = pa],
                           [all_markets[2] EXCEPT !.yes_price = pb]>>
       /\ price_history' = RecordAll(price_history, all_markets', 1, t)
  /\ UNCHANGED <<detvars, moves, anomalies, sent_arb_alerts, sent_corr_alerts,
                 sent_move_alerts, scan_count, file, persvars, apivars,
                 pc, scan, run, alerts, persisted, committed, responses>>

NextCorr == ScanCorr \/ CorrFetched

SpecCorr == InitCorr /\ [][NextCorr]_vars

(***************************************************************************)
(* SpecOrder: one call of find_correlation_anomalies on two markets given   *)
(* in either order, whose titles are linked by a keyword pair, by           *)
(* similarity, or not at all                                               *)
(***************************************************************************)

\* "WAR", "strike", "ab", "bacb"
OrderTitles ==
  {<<"W", "A", "R">>, <<"s", "t", "r", "i", "k", "e">>, <<"a", "b">>,
   <<"b", "a", "c", "b">>}

\* first history entry and current price of a market, in cents: +12, -12, +1, 0
OrderShapes == {<<40, 52>>, <<52, 40>>, <<55, 56>>, <<55, 55>>}

InitOrder ==
  /\ NoDetCall
  /\ \E ta \in OrderTitles, tb \in OrderTitles, sa \in OrderShapes, sb \in OrderShapes :
       /\ all_markets = <<CorrMarket("m1", ta, sa[2]), CorrMarket("m2", tb, sb[2])>>
       /\ price_history = [mid \in {"m1", "m2"} |->
                             <<[price |-> IF mid = "m1" THEN sa[1] ELSE sb[1], ts |-> 1]>>]
  /\ moves_called = FALSE
  /\ moves = <<>>
  /\ anomalies = <<>>
  /\ sent_arb_alerts = EmptyMap
  /\ sent_corr_alerts = EmptyMap
  /\ sent_move_alerts = EmptyMap
  /\ scan_count = 0
  /\ now = 2
  /\ file = MissingFile
  /\ NoPersistCall
  /\ NoProcess
  /\ NoApiCall

\* find_correlation_anomalies(all_markets, price_history)
OrderCorr ==
  /\ ~moves_called
  /\ moves_called' = TRUE
  /\ anomalies' = find_correlation_anomalies(all_markets, price_history)
  /\ UNCHANGED <<detvars, all_markets, moves, statevars, now, file, persvars, apivars,
                 procvars>>

NextOrder == OrderCorr

SpecOrder == InitOrder /\ [][NextOrder]_vars

(***************************************************************************)
(* SpecCap: market_scan cycles that follow one another on four markets of   *)
(* each platform whose prices stay as they are, every cycle run from its    *)
(* fetch to its save without interruption                                   *)
(***************************************************************************)

\* how many cycles are run
MaxCapCycles == 3

\* the titles of the four markets of either platform: "aa", "bb", "cc", "dd"
CapTitles == <<<<"a", "a">>, <<"b", "b">>, <<"c", "c">>, <<"d", "d">>>>
CapPolyIds == <<"p1", "p2", "p3", "p4">>
CapKalshiIds == <<"k1", "k2", "k3", "k4">>

\* the key of a candidate of class cls
KeyOf(cls, candidate) ==
  IF cls = "arb" THEN ArbKey(candidate)
  ELSE IF cls = "move" THEN MoveKey(candidate)
  ELSE CorrKey(candidate)

\* state.can_alert_arb / can_alert_move / can_alert_corr with the default cooldown
CanAlertKey(cls, sent, key, t) ==
  IF cls = "arb" THEN can_alert_arb(sent, key, ARB_COOLDOWN, t)
  ELSE IF cls = "move" THEN can_alert_move(sent, key, MOVE_COOLDOWN, t)
  ELSE can_alert_corr(sent, key, CORR_COOLDOWN, t)

\* the candidates a loop would walk if the cap were applied to those the
\* cooldown lets through
Walked_AfterCooldown(cls, sent, found, t) ==
  FirstN(SelectSeq(found, LAMBDA c : CanAlertKey(cls, sent, KeyOf(cls, c), t)),
         IF cls = "corr" THEN 2 ELSE 3)

\* the candidates a loop walks: arb_opps[:3], big_moves[:3], anomalies[:2]
Walked(cls, sent, found, t) == FirstN(found, IF cls = "corr" THEN 2 ELSE 3)

\* one pass of a loop: unless the key is in cooldown, the alert is sent and
\* the key is marked.  st is [sent, log]
CapAlert(cls, st, candidate, t, n) ==
  IF CanAlertKey(cls, st.sent, KeyOf(cls, candidate), t)
  THEN [sent |-> DictSet(st.sent, KeyOf(cls, candidate), t),
        log |-> st.log \cup {[key |-> KeyOf(cls, candidate), at |-> t, n |-> n]}]
  ELSE st

RECURSIVE CapLoop(_, _, _, _, _, _)
CapLoop(cls, st, todo, i, t, n) ==
  IF i > Len(todo) THEN st
  ELSE CapLoop(cls, CapAlert(cls, st, todo[i], t, n), todo, i + 1, t, n)

\* the cooldown map and the log of a class after its loop over found
CapLooped(cls, sent, found, t, n) ==
  CapLoop(cls, [sent |-> sent, log |-> alerts[cls]], Walked(cls, sent, found, t), 1, t, n)

InitCap ==
  /\ \E moved \in SUBSET (1..4) :
       poly_markets = [i \in 1..4 |->
                         CorrMarket(CapPolyIds[i], CapTitles[i],
                                    IF i \in moved THEN 60 + 2 * i ELSE 50)]
  /\ kalshi_markets = [i \in 1..4 |-> CorrMarket(CapKalshiIds[i], CapTitles[i], 50)]
  /\ all_markets = poly_markets \o kalshi_markets
  /\ price_history = [mid \in {"p1", "p2", "p3", "p4", "k1", "k2", "k3", "k4"} |->
                        <<[price |-> 50, ts |-> 0]>>]
  /\ threshold_pct = ARBITRAGE_THRESHOLD_PCT
  /\ a_side = "none"
  /\ matched = <<>>
  /\ opportunities = <<>>
  /\ moves_called = FALSE
  /\ moves = <<>>
  /\ anomalies = <<>>
  /\ sent_arb_alerts = EmptyMap
  /\ sent_corr_alerts = EmptyMap
  /\ sent_move_alerts = EmptyMap
  /\ scan_count = 0
  /\ now = 1
  /\ file = MissingFile
  /\ NoPersistCall
  /\ NoProcess
  /\ NoApiCall

\* the detectors of the cycle at instant t, on the prices recorded
CapDetected(t) ==
  /\ price_history' = RecordAll(price_history, all_markets, 1, t)
  /\ a_side' = "poly"
  /\ Returned(ArbRun(poly_markets, kalshi_markets, ARBITRAGE_THRESHOLD_PCT))
  /\ moves_called' = TRUE
  /\ moves' = find_big_moves(all_markets, price_history', BIG_MOVE_THRESHOLD_PCT)
  /\ anomalies' = find_correlation_anomalies(all_markets, price_history')

\* the three loops of the cycle of number n at instant t
CapAlerted(t, n) ==
  /\ sent_arb_alerts' = CapLooped("arb", sent_arb_alerts, opportunities', t, n).sent
  /\ sent_move_alerts' = CapLooped("move", sent_move_alerts, moves', t, n).sent
  /\ sent_corr_alerts' = CapLooped("corr", sent_corr_alerts, anomalies', t, n).sent
  /\ alerts' = [c \in Channels |->
                  IF c = "arb" THEN CapLooped("arb", sent_arb_alerts, opportunities', t, n).log
                  ELSE IF c = "move"
                       THEN CapLooped("move", sent_move_alerts, moves', t, n).log
                  ELSE IF c = "corr"
                       THEN CapLooped("corr", sent_corr_alerts, anomalies', t, n).log
                  ELSE alerts[c]]

\* market_scan, at once or up to an hour after the cycle before
CapScan ==
  /\ cycles < MaxCapCycles
  /\ cycles' = cycles + 1
  /\ scan_count' = scan_count + 1
  /\ \E dt \in 0..2 :
       /\ now' = now + dt
       /\ CapDetected(now + dt)
       /\ CapAlerted(now + dt, cycles + 1)
  /\ file' = DocFile(save_document(
               [price_history |-> price_history', sent_arb_alerts |-> sent_arb_alerts',
                sent_corr_alerts |-> sent_corr_alerts',
                sent_move_alerts |-> sent_move_alerts', scan_count |-> scan_count'],
               now'))
  /\ UNCHANGED <<poly_markets, kalshi_markets, threshold_pct, all_markets, persvars,
                 apivars, pc, scan, run, persisted, committed, responses>>

NextCap == CapScan

SpecCap == InitCap /\ [][NextCap]_vars

(***************************************************************************)
(* SpecFirst: the recording and the detection of one market_scan cycle on   *)
(* three Kalshi markets of one title, of which the first two may carry the  *)
(* same id and the third may have been recorded before                      *)
(***************************************************************************)

FirstPrices == {40, 55, 60}

\* the title of the three markets: "ab"
FirstTitle == <<"a", "b">>

InitFirst ==
  /\ NoDetCall
  /\ \E second \in {"k1", "k2"}, pa \in FirstPrices, pb \in FirstPrices, pc3 \in FirstPrices :
       all_markets = <<CorrMarket("k1", FirstTitle, pa), CorrMarket(second, FirstTitle, pb),
                       CorrMarket("k3", FirstTitle, pc3)>>
  /\ price_history \in {EmptyMap, [mid \in {"k3"} |-> <<[price |-> 55, ts |-> 0]>>]}
  /\ moves_called = FALSE
  /\ moves = <<>>
  /\ anomalies = <<>>
  /\ sent_arb_alerts = EmptyMap
  /\ sent_corr_alerts = EmptyMap
  /\ sent_move_alerts = EmptyMap
  /\ scan_count = 0
  /\ now = 1
  /\ file = MissingFile
  /\ NoPersistCall
  /\ NoProcess
  /\ NoApiCall

\* market_scan from the loop of record_price to the call of
\* find_correlation_anomalies
FirstScan ==
  /\ ~moves_called
  /\ moves_called' = TRUE
  /\ price_history' = RecordAll(price_history, all_markets, 1, now)
  /\ moves' = find_big_moves(all_markets, price_history', BIG_MOVE_THRESHOLD_PCT)
  /\ anomalies' = find_correlation_anomalies(all_markets, price_history')
  /\ UNCHANGED <<detvars, all_markets, sent_arb_alerts, sent_corr_alerts, sent_move_alerts,
                 scan_count, now, file, persvars, apivars, procvars>>

NextFirst == FirstScan

SpecFirst == InitFirst /\ [][NextFirst]_vars

(***************************************************************************)
(* SpecPure: calls of the three detectors on the markets and the history   *)
(* of one cycle, made again and again while the cooldown maps are marked   *)
(* and the clock advances                                                  *)
(***************************************************************************)

\* the last instant of the clock
MaxPureTime == 3

WarTitle == <<"w", "a", "r">>

InitPure ==
  /\ \E p \in {40, 66}, q \in {55, 62}, t \in CorrTitles :
       /\ poly_markets = <<CorrMarket("m1", WarTitle, p)>>
       /\ kalshi_markets = <<CorrMarket("m2", t, q)>>
  /\ all_markets = poly_markets \o kalshi_markets
  /\ \E h \in [{"m1", "m2"} -> {<<[price |-> 55, ts |-> 1]>>,
                                <<[price |-> 40, ts |-> 1], [price |-> 55, ts |-> 2]>>}] :
       price_history = h
  /\ threshold_pct = ARBITRAGE_THRESHOLD_PCT
  /\ a_side = "none"
  /\ matched = <<>>
  /\ opportunities = <<>>
  /\ moves_called = FALSE
  /\ moves = <<>>
  /\ anomalies = <<>>
  /\ sent_arb_alerts = EmptyMap
  /\ sent_corr_alerts = EmptyMap
  /\ sent_move_alerts = EmptyMap
  /\ scan_count = 0
  /\ now = 2
  /\ file = MissingFile
  /\ NoPersistCall
  /\ NoProcess
  /\ NoApiCall

\* find_arbitrage_opportunities(poly, kalshi)
PureArb ==
  /\ a_side' = "poly"
  /\ Returned(ArbRun(poly_markets, kalshi_markets, ARBITRAGE_THRESHOLD_PCT))
  /\ UNCHANGED <<poly_markets, kalshi_markets, threshold_pct, movevars, statevars, now, file,
                 persvars, apivars, procvars>>

\* find_big_moves with the result cut to the markets that are not in cooldown
PureMoves_Cooled ==
  /\ moves_called' = TRUE
  /\ moves' = SelectSeq(find_big_moves(all_markets, price_history, BIG_MOVE_THRESHOLD_PCT),
                        LAMBDA mv : MoveKey(mv) \notin DOMAIN sent_move_alerts)
  /\ UNCHANGED <<detvars, all_markets, anomalies, statevars, now, file, persvars, apivars,
                 procvars>>

\* find_big_moves(all_markets, state.price_history)
PureMoves ==
  /\ moves_called' = TRUE
  /\ moves' = find_big_moves(all_markets, price_history, BIG_MOVE_THRESHOLD_PCT)
  /\ UNCHANGED <<detvars, all_markets, anomalies, statevars, now, file, persvars, apivars,
                 procvars>>

\* find_correlation_anomalies(all_markets, state.price_history)
PureCorr ==
  /\ anomalies' = find_correlation_anomalies(all_markets, price_history)
  /\ UNCHANGED <<detvars, all_markets, moves_called, moves, statevars, now, file, persvars,
                 apivars, procvars>>

\* state.mark_arb_alert, state.mark_move_alert or state.mark_corr_alert on a
\* key of these markets
PureMark ==
  /\ \/ /\ sent_arb_alerts' =
            mark_arb_alert(sent_arb_alerts, FirstN(poly_markets[1].title, 30), now)
        /\ UNCHANGED <<sent_move_alerts, sent_corr_alerts>>
     \/ /\ \E i \in 1..Len(all_markets) :
             sent_move_alerts' = mark_move_alert(sent_move_alerts, all_markets[i].id, now)
        /\ UNCHANGED <<sent_arb_alerts, sent_corr_alerts>>
     \/ /\ \E i \in 1..Len(all_markets), j \in 1..Len(all_markets) :
             /\ i # j
             /\ sent_corr_alerts' =
                  mark_corr_alert(sent_corr_alerts,
                                  all_markets[i].id \o ":" \o all_markets[j].id, now)
        /\ UNCHANGED <<sent_arb_alerts, sent_move_alerts>>
  /\ UNCHANGED <<detvars, movevars, price_history, scan_count, now, file, persvars, apivars,
                 procvars>>

PureTick ==
  /\ now < MaxPureTime
  /\ now' = now + 1
  /\ UNCHANGED <<detvars, movevars, statevars, file, persvars, apivars, procvars>>

NextPure == PureArb \/ PureMoves \/ PureCorr \/ PureMark \/ PureTick

SpecPure == InitPure /\ [][NextPure]_vars

(***************************************************************************)
(* SpecCooldown: the cooldown methods of State called in any order, with   *)
(* any key and cooldown, while the clock advances                          *)
(***************************************************************************)

\* the last instant of the clock
MaxTime == 3
\* the most cooldown records the three maps hold together
MaxRecords == 3

Keys == {"k1", "k2"}
CooldownArgs == {ARB_COOLDOWN, CORR_COOLDOWN}

Records ==
  Cardinality(DOMAIN sent_arb_alerts) + Cardinality(DOMAIN sent_corr_alerts)
  + Cardinality(DOMAIN sent_move_alerts)

InitCooldown ==
  /\ NoDetCall
  /\ NoMoveCall
  /\ FreshState
  /\ now = 0
  /\ file = MissingFile
  /\ NoPersistCall
  /\ NoProcess
  /\ NoApiCall

Tick ==
  /\ now < MaxTime
  /\ now' = now + 1
  /\ answer' = NoAnswer
  /\ UNCHANGED <<detvars, movevars, statevars, file, persvars, fired, sending, procvars>>

Asked(cls, key, cooldown_minutes, result) ==
  /\ answer' = [cls |-> cls, key |-> key, cooldown |-> cooldown_minutes,
                result |-> result]
  /\ UNCHANGED <<detvars, movevars, statevars, now, file, persvars, fired, sending, procvars>>

AskArb ==
  \E key \in Keys, cd \in CooldownArgs :
    Asked("arb", key, cd, can_alert_arb(sent_arb_alerts, key, cd, now))

AskCorr ==
  \E key \in Keys, cd \in CooldownArgs :
    Asked("corr", key, cd, can_alert_corr(sent_corr_alerts, key, cd, now))

AskMove ==
  \E key \in Keys, cd \in CooldownArgs :
    Asked("move", key, cd, can_alert_move(sent_move_alerts, key, cd, now))

Marked(cls, key) ==
  /\ Records < MaxRecords \/ key \in DOMAIN fired[cls]
  /\ fired' = [fired EXCEPT ![cls] = DictSet(fired[cls], key, now)]
  /\ answer' = NoAnswer
  /\ UNCHANGED <<detvars, movevars, price_history, scan_count, now, file, persvars, sending, procvars>>

MarkArb ==
  \E key \in Keys :
    /\ Marked("arb", key)
    /\ sent_arb_alerts' = mark_arb_alert(sent_arb_alerts, key, now)
    /\ UNCHANGED <<sent_corr_alerts, sent_move_alerts>>

\* MarkCorr writing the record into the arbitrage map as well
MarkCorr_BothMaps ==
  \E key \in Keys :
    /\ Marked("corr", key)
    /\ sent_corr_alerts' = mark_corr_alert(sent_corr_alerts, key, now)
    /\ sent_arb_alerts' = mark_arb_alert(sent_arb_alerts, key, now)
    /\ UNCHANGED sent_move_alerts

MarkCorr ==
  \E key \in Keys :
    /\ Marked("corr", key)
    /\ sent_corr_alerts' = mark_corr_alert(sent_corr_alerts, key, now)
    /\ UNCHANGED <<sent_arb_alerts, sent_move_alerts>>

MarkMove ==
  \E key \in Keys :
    /\ Marked("move", key)
    /\ sent_move_alerts' = mark_move_alert(sent_move_alerts, key, now)
    /\ UNCHANGED <<sent_arb_alerts, sent_corr_alerts>>

NextCooldown ==
  Tick \/ AskArb \/ AskCorr \/ AskMove \/ MarkArb \/ MarkCorr \/ MarkMove

SpecCooldown == InitCooldown /\ [][NextCooldown]_vars

\* SpecUnparsed: the same calls on a State that _load built from a file whose
\* cooldown maps hold, for one key each, a record that is no timestamp
InitUnparsed ==
  /\ NoDetCall
  /\ NoMoveCall
  /\ price_history = EmptyMap
  /\ \E u \in UnparsableRecords :
       /\ sent_arb_alerts = DictSet(EmptyMap, "k1", u)
       /\ sent_corr_alerts = DictSet(EmptyMap, "k2", u)
  /\ sent_move_alerts = EmptyMap
  /\ scan_count = 0
  /\ now = 0
  /\ file = MissingFile
  /\ NoPersistCall
  /\ NoProcess
  /\ NoApiCall

SpecUnparsed == InitUnparsed /\ [][NextCooldown]_vars

(***************************************************************************)
(* SpecPersist: save() and the constructors of State and BotState called   *)
(* in any order, from any State and over any state file                    *)
(***************************************************************************)

\* the instant SpecPersist starts at
PersistTime == 52
\* record_price is called on histories shorter than this
MaxEntries == 2
\* the most runs BotState.mark_run counts
MaxBotRuns == 1

\* instants before, at and after the cutoff of a save() at PersistTime
Stale == PersistTime - RETENTION - 1
AtCutoff == PersistTime - RETENTION
Fresh1 == PersistTime - RETENTION + 1
Fresh2 == PersistTime - 1

PersistHistories ==
  {<<[price |-> 40, ts |-> Stale]>>,
   <<[price |-> 40, ts |-> Stale], [price |-> 55, ts |-> AtCutoff], [price |-> 65, ts |-> Fresh1]>>,
   <<[price |-> 40, ts |-> Stale], [price |-> 55, ts |-> Fresh1], [price |-> 65, ts |-> Fresh2],
     [price |-> 55, ts |-> PersistTime]>>}

PersistPriceHistories ==
  UNION {[ids -> PersistHistories] : ids \in SUBSET {"m1", "m2"}}

\* the cooldown maps and the scan count of a State: a new one, one that has
\* alerted once, one that has alerted in every class
PersistAlerts ==
  {[sent_arb_alerts |-> EmptyMap, sent_corr_alerts |-> EmptyMap,
    sent_move_alerts |-> EmptyMap, scan_count |-> 0],
   [sent_arb_alerts |-> [k \in {"k1"} |-> Fresh2], sent_corr_alerts |-> EmptyMap,
    sent_move_alerts |-> EmptyMap, scan_count |-> 7],
   [sent_arb_alerts |-> [k \in {"k1"} |-> Fresh2],
    sent_corr_alerts |-> [k \in {"k1", "k2"} |-> Stale],
    sent_move_alerts |-> [k \in {"m1"} |-> PersistTime], scan_count |-> 7]}

PersistStates ==
  {[price_history |-> h, sent_arb_alerts |-> a.sent_arb_alerts,
    sent_corr_alerts |-> a.sent_corr_alerts, sent_move_alerts |-> a.sent_move_alerts,
    scan_count |-> a.scan_count] : h \in PersistPriceHistories, a \in PersistAlerts}

\* the file a save() at instant Stale wrote, of a State that had recorded
\* market m1 at that instant: the process has been down since
OldFile ==
  DocFile(save_document(
    [EmptyState EXCEPT !.price_history = [mid \in {"m1"} |-> <<[price |-> 40, ts |-> Stale]>>]],
    Stale))

\* the files a constructor may find: none, an empty or cut-short one, JSON that
\* is no object, an object with a single key, the document of a BotState, the
\* document of a State saved long ago
PersistFiles ==
  {MissingFile, PartialFile, ArrayFile, DocFile([scan_count |-> 7]),
   DocFile(mark_run(BotDefaults)), OldFile}

\* what the fetches of the first cycle after a restart return
ScanLists ==
  {<<MoveMarket("m1", 55), MoveMarket("m2", 55)>>}

InitPersist ==
  /\ NoDetCall
  /\ NoMoveCall
  /\ NoApiCall
  /\ now = PersistTime
  /\ \E st \in PersistStates :
       /\ price_history = st.price_history
       /\ sent_arb_alerts = st.sent_arb_alerts
       /\ sent_corr_alerts = st.sent_corr_alerts
       /\ sent_move_alerts = st.sent_move_alerts
       /\ scan_count = st.scan_count
  /\ file \in PersistFiles
  /\ NoPersistCall
  /\ NoProcess

\* state.save(), run to its end
Save ==
  /\ file' = DocFile(save_document(StateNow, now))
  /\ snap' = [valid |-> TRUE, state |-> StateNow, at |-> now]
  /\ built' = NotBuilt
  /\ UNCHANGED <<detvars, movevars, statevars, now, bot, apivars, procvars>>

\* State(): a new object, loaded from the file
Construct ==
  /\ StateBecomes(State_load(file))
  /\ built' = [cls |-> "State", file |-> file, raised |-> FALSE]
  /\ UNCHANGED <<detvars, movevars, now, file, bot, snap, apivars, procvars>>

\* state.record_price(mid, price)
RecordPrice ==
  \E mid \in {"m1", "m2"} :
    /\ Len(HistoryOf(price_history, mid)) < MaxEntries
    /\ price_history' = record_price(price_history, mid, 55, now)
    /\ built' = NotBuilt
    /\ UNCHANGED <<detvars, movevars, sent_arb_alerts, sent_corr_alerts,
                   sent_move_alerts, scan_count, now, file, bot, snap, apivars, procvars>>

\* BotState(): a new object, loaded from the file, or the exception it raises
BotConstruct ==
  /\ LET r == BotState_load(file)
     IN /\ built' = [cls |-> "BotState", file |-> file, raised |-> r.status = "raised"]
        /\ bot' = IF r.status = "ok" THEN r.state ELSE bot
  /\ UNCHANGED <<detvars, movevars, statevars, now, file, snap, apivars, procvars>>

\* the first market_scan cycle on the State just built, as far as the call of
\* find_big_moves: the fetched prices are recorded, then the detector runs
ScanMoves ==
  /\ built.cls = "State"
  /\ ~moves_called
  /\ \E markets \in ScanLists :
       /\ all_markets' = markets
       /\ price_history' = RecordAll(price_history, markets, 1, now)
       /\ moves' = find_big_moves(markets, price_history', BIG_MOVE_THRESHOLD_PCT)
  /\ moves_called' = TRUE
  /\ built' = [built EXCEPT !.cls = "scanned"]
  /\ UNCHANGED <<detvars, anomalies, sent_arb_alerts, sent_corr_alerts,
                 sent_move_alerts, scan_count, now, file, bot, snap, apivars, procvars>>

BotMarkRun ==
  /\ bot.run_count < MaxBotRuns
  /\ bot' = mark_run(bot)
  /\ built' = NotBuilt
  /\ UNCHANGED <<detvars, movevars, statevars, now, file, snap, apivars, procvars>>

\* BotState.save(), run to its end
BotSave ==
  /\ file' = DocFile(bot)
  /\ snap' = NoSnap
  /\ built' = NotBuilt
  /\ UNCHANGED <<detvars, movevars, statevars, now, bot, apivars, procvars>>

NextPersist ==
  BotConstruct \/ Construct \/ Save \/ RecordPrice \/ ScanMoves \/ BotMarkRun \/ BotSave

SpecPersist == InitPersist /\ [][NextPersist]_vars

(***************************************************************************)
(* SpecRss and SpecPrices: mark_rss_seen and update_prices of a BotState    *)
(* called any number of times                                              *)
(***************************************************************************)
Guids == {"g1", "g2", "g3"}
BotIds == {"m1", "m2"}
BotPrices == {40, 55}
BotInfos == {"old title", "new title"}

\* the _state of a BotState with these three fields set
BotWith(prices, info, guids) ==
  [previous_prices |-> prices, market_info |-> info, seen_rss_guids |-> guids,
   run_count |-> 0]

\* a list of GUIDs longer than mark_rss_seen lets it grow, as _load takes it
\* from a file
LoadedGuids == [i \in 1..(SEEN_GUIDS_MAX + 2) |-> IF i % 2 = 1 THEN "g1" ELSE "g2"]

\* the dictionaries over some of the ids
DictsOver(ids, values) == UNION {[d -> values] : d \in SUBSET ids}

InitBot(bot_state) ==
  /\ NoDetCall
  /\ NoMoveCall
  /\ FreshState
  /\ now = 0
  /\ file = MissingFile
  /\ built = NotBuilt
  /\ bot = bot_state
  /\ snap = NoSnap
  /\ NoProcess
  /\ NoApiCall

InitRss == \E guids \in {<<>>, LoadedGuids} : InitBot(BotWith(EmptyMap, EmptyMap, guids))

BotMarkRssSeen ==
  /\ \E guid \in Guids :
       /\ built' = [cls |-> "mark_rss_seen", guid |-> guid, before |-> bot.seen_rss_guids]
       /\ bot' = mark_rss_seen(bot, guid)
  /\ UNCHANGED <<detvars, movevars, statevars, now, file, snap, apivars, procvars>>

NextRss == BotMarkRssSeen

SpecRss == InitRss /\ [][NextRss]_vars

InitPrices == InitBot(BotWith(EmptyMap, EmptyMap, <<>>))

BotUpdatePrices ==
  /\ \E new_prices \in DictsOver(BotIds, BotPrices), info \in DictsOver(BotIds, BotInfos) :
       /\ built' = [cls |-> "update_prices", new_prices |-> new_prices, info |-> info,
                    before |-> bot.market_info]
       /\ bot' = update_prices(bot, new_prices, info)
  /\ UNCHANGED <<detvars, movevars, statevars, now, file, snap, apivars, procvars>>

NextPrices == BotUpdatePrices

SpecPrices == InitPrices /\ [][NextPrices]_vars

(***************************************************************************)
(* SpecRecord: record_price, save() and State() in any order on one State   *)
(* and its file, while the clock advances                                   *)
(***************************************************************************)

\* record_price is called on histories shorter than this
MaxRecorded == 3

\* the prices recorded
RecordPrices == {55}

InitRecord ==
  /\ NoDetCall
  /\ NoMoveCall
  /\ NoApiCall
  /\ now = PersistTime - 1
  /\ price_history \in {EmptyMap, [mid \in {"m1"} |-> <<[price |-> 40, ts |-> Stale]>>]}
  /\ sent_arb_alerts = [k \in {"m1"} |-> Fresh2]
  /\ sent_corr_alerts = EmptyMap
  /\ sent_move_alerts = [k \in {"m1"} |-> Fresh1]
  /\ scan_count = 7
  /\ file = MissingFile
  /\ NoPersistCall
  /\ NoProcess

\* state.record_price(mid, price)
RecordOne ==
  \E mid \in {"m1", "m2"}, price \in RecordPrices :
    /\ Len(HistoryOf(price_history, mid)) < MaxRecorded
    /\ price_history' = record_price(price_history, mid, price, now)
    /\ built' = NotBuilt
    /\ UNCHANGED <<detvars, movevars, sent_arb_alerts, sent_corr_alerts,
                   sent_move_alerts, scan_count, now, file, bot, snap, apivars, procvars>>

\* the clock advances
RecordTick ==
  /\ now < PersistTime + 1
  /\ now' = now + 1
  /\ UNCHANGED <<detvars, movevars, statevars, file, persvars, apivars, procvars>>

NextRecord == RecordOne \/ Save \/ Construct \/ RecordTick

SpecRecord == InitRecord /\ [][NextRecord]_vars

(***************************************************************************)
(* Spec: the process.  main() builds the State, makes the initial fetch    *)
(* and save, starts the scheduler and calls market_scan() itself (thread   *)
(* "direct") while the interval job runs market_scan() too (thread "job",  *)
(* one instance at a time).  The process can be killed at any point and    *)
(* started again.                                                          *)
(***************************************************************************)

\* how many times the process is started
MaxRuns == 2
\* how many market_scan cycles are started, over all runs
MaxCycles == 3
\* the last instant of the process's clock
MaxClock == 1

\* what one round of fetch_polymarket_iran and fetch_kalshi_iran returns:
\* nothing, or one market per platform with the same title
FetchedPoly(price) ==
  PolyMarket(1, [title |-> <<"a", "b">>, event_title |-> <<>>, yes_price |-> price])
FetchedKalshi ==
  KalshiMarket(1, [title |-> <<"a", "b">>, subtitle |-> <<>>, yes_price |-> 55, n |-> 1])
FetchOutcomes ==
  {[poly |-> <<>>, kalshi |-> <<>>],
   [poly |-> <<FetchedPoly(55)>>, kalshi |-> <<FetchedKalshi>>],
   [poly |-> <<FetchedPoly(70)>>, kalshi |-> <<FetchedKalshi>>]}

\* the file an earlier deployment left: none, or the document of a State
\* that counted 119 scans and saw no market
InitialFiles ==
  {MissingFile, DocFile(save_document([EmptyState EXCEPT !.scan_count = 119], 0))}

Init ==
  /\ NoDetCall
  /\ NoMoveCall
  /\ NoApiCall
  /\ NoPersistCall
  /\ FreshState
  /\ now = 0
  /\ file \in InitialFiles
  /\ NoProcess

othervars == <<detvars, movevars, persvars, apivars, responses>>

Cooldown(cls) ==
  IF cls = "arb" THEN ARB_COOLDOWN ELSE IF cls = "move" THEN MOVE_COOLDOWN ELSE CORR_COOLDOWN

\* json.dump of save() runs to its end: the document is in the file
Saved ==
  /\ file' = DocFile(save_document(StateNow, now))
  /\ committed' = file'
  /\ persisted' =
       [c \in Classes |->
          persisted[c] \cup
          {[key |-> k, at |-> SentMap(c)[k], run |-> run] : k \in DOMAIN SentMap(c)}]

\* the step of thread th ends with the State st and the cycle at thr: at an
\* await, or inside save() behind open(STATE_FILE, "w"), which empties the file
StepTo(th, thr, st) ==
  /\ StateBecomes(st)
  /\ scan' = [scan EXCEPT ![th] = thr]
  /\ file' = IF thr.pc = "dump" THEN PartialFile ELSE file

\* python main.py: state = State()
Start ==
  /\ pc = "down"
  /\ run < MaxRuns
  /\ run' = run + 1
  /\ StateBecomes(State_load(file))
  /\ pc' = "init"
  /\ UNCHANGED <<now, file, scan, cycles, alerts, persisted, committed, othervars>>

\* main(): the initial fetch returns, prices are recorded, save() opens the file
InitFetched ==
  /\ pc = "init"
  /\ \E f \in FetchOutcomes :
       price_history' = RecordAll(price_history, f.poly \o f.kalshi, 1, now)
  /\ file' = PartialFile
  /\ pc' = "init_dump"
  /\ UNCHANGED <<sent_arb_alerts, sent_corr_alerts, sent_move_alerts, scan_count, now,
                 scan, run, cycles, alerts, persisted, committed, othervars>>

\* main(): the initial save() ends; send_startup is awaited
InitSaveEnd ==
  /\ pc = "init_dump"
  /\ Saved
  /\ pc' = "startup"
  /\ UNCHANGED <<statevars, now, scan, run, cycles, alerts, othervars>>

\* main(): send_startup returns, the scheduler is started and market_scan()
\* is called: it counts the scan and awaits the fetch
StartupSent ==
  /\ pc = "startup"
  /\ cycles < MaxCycles
  /\ pc' = "running"
  /\ scan_count' = scan_count + 1
  /\ cycles' = cycles + 1
  /\ scan' = [scan EXCEPT !["direct"] = [IdleScan EXCEPT !.pc = "fetch", !.n = cycles + 1]]
  /\ UNCHANGED <<price_history, sent_arb_alerts, sent_corr_alerts, sent_move_alerts,
                 now, file, run, alerts, persisted, committed, othervars>>

\* the interval job fires: market_scan() counts the scan and awaits the fetch
ScanStart ==
  /\ pc = "running"
  /\ scan["job"].pc = "idle"
  /\ NoDump
  /\ cycles < MaxCycles
  /\ scan_count' = scan_count + 1
  /\ cycles' = cycles + 1
  /\ scan' = [scan EXCEPT !["job"] = [IdleScan EXCEPT !.pc = "fetch", !.n = cycles + 1]]
  /\ UNCHANGED <<price_history, sent_arb_alerts, sent_corr_alerts, sent_move_alerts,
                 now, file, pc, run, alerts, persisted, committed, othervars>>

\* all_markets = poly + kalshi; if not all_markets
NoMarketsFound_Either(poly, kalshi) == poly = <<>> \/ kalshi = <<>>
NoMarketsFound(poly, kalshi) == poly \o kalshi = <<>>

\* market_scan: both fetches have returned, with f
ScanFetchedWith(th, f) ==
  /\ scan[th].pc = "fetch"
  /\ NoDump
  /\ LET thr == [scan[th] EXCEPT !.poly = f.poly, !.kalshi = f.kalshi]
         all_now == f.poly \o f.kalshi
         st == [StateNow EXCEPT !.price_history = RecordAll(price_history, all_now, 1, now)]
     IN IF NoMarketsFound(f.poly, f.kalshi)
        THEN StepTo(th, AwaitAt(thr, "dump", <<>>, 0), StateNow)
        ELSE StepTo(th, EnterArb(thr, st, now), st)
  /\ UNCHANGED <<now, pc, run, cycles, alerts, persisted, committed, othervars>>

ScanFetched(th) == \E f \in FetchOutcomes : ScanFetchedWith(th, f)

\* the alert of class cls for key is sent (its delivery is not looked at)
Notified(th, cls, key) ==
  alerts' = [alerts EXCEPT ![cls] =
               @ \cup {[key |-> key, at |-> now, run |-> run, n |-> scan[th].n]}]

\* market_scan: ai_analyze_arbitrage and send_arbitrage have returned
ArbSent(th) ==
  /\ scan[th].pc = "arb"
  /\ NoDump
  /\ LET alert_key == ArbKey(scan[th].todo[scan[th].i])
         st == [StateNow EXCEPT
                  !.sent_arb_alerts = mark_arb_alert(sent_arb_alerts, alert_key, now)]
     IN /\ Notified(th, "arb", alert_key)
        /\ StepTo(th, ResumeArb(scan[th], st, now), st)
  /\ UNCHANGED <<now, pc, run, cycles, persisted, committed, othervars>>

\* market_scan: fetch_iran_news has returned
NewsFetched(th) ==
  /\ scan[th].pc = "news"
  /\ NoDump
  /\ StepTo(th, ResumeMoves(scan[th], StateNow, now), StateNow)
  /\ UNCHANGED <<now, pc, run, cycles, alerts, persisted, committed, othervars>>

\* market_scan: ai_analyze_big_move and send_big_move have returned
MoveSent(th) ==
  /\ scan[th].pc = "move"
  /\ NoDump
  /\ LET mid == MoveKey(scan[th].todo[scan[th].i])
         st == [StateNow EXCEPT
                  !.sent_move_alerts = mark_move_alert(sent_move_alerts, mid, now)]
     IN /\ Notified(th, "move", mid)
        /\ StepTo(th, ResumeMoves(scan[th], st, now), st)
  /\ UNCHANGED <<now, pc, run, cycles, persisted, committed, othervars>>

\* market_scan: ai_analyze_correlation and send_correlation have returned
CorrSent(th) ==
  /\ scan[th].pc = "corr"
  /\ NoDump
  /\ LET key == CorrKey(scan[th].todo[scan[th].i])
         st == [StateNow EXCEPT
                  !.sent_corr_alerts = mark_corr_alert(sent_corr_alerts, key, now)]
     IN /\ Notified(th, "corr", key)
        /\ StepTo(th, ResumeCorr(scan[th], st, now), st)
  /\ UNCHANGED <<now, pc, run, cycles, persisted, committed, othervars>>

\* market_scan: send_market_snapshot has returned
SnapshotSent(th) ==
  /\ scan[th].pc = "snapshot"
  /\ NoDump
  /\ StepTo(th, AfterSnapshot(scan[th], StateNow), StateNow)
  /\ UNCHANGED <<now, pc, run, cycles, alerts, persisted, committed, othervars>>

\* market_scan: send_heartbeat has returned
HeartbeatSent(th) ==
  /\ scan[th].pc = "heartbeat"
  /\ NoDump
  /\ StepTo(th, AwaitAt(scan[th], "dump", <<>>, 0), StateNow)
  /\ UNCHANGED <<now, pc, run, cycles, alerts, persisted, committed, othervars>>

\* market_scan: its save() ends and the cycle is over
ScanSaveEnd(th) ==
  /\ scan[th].pc = "dump"
  /\ Saved
  /\ scan' = [scan EXCEPT ![th] = IF th = "direct" THEN [IdleScan EXCEPT !.pc = "done"]
                                  ELSE IdleScan]
  /\ UNCHANGED <<statevars, now, pc, run, cycles, alerts, othervars>>

\* the process is killed: its memory is gone, the file stays as it is
Crash ==
  /\ pc # "down"
  /\ pc' = "down"
  /\ scan' = [th \in Threads |-> IdleScan]
  /\ StateBecomes(EmptyState)
  /\ UNCHANGED <<now, file, run, cycles, alerts, persisted, committed, othervars>>

\* the clock advances, but not inside a save(), which awaits nothing
Elapse ==
  /\ NoDump
  /\ now < MaxClock
  /\ now' = now + 1
  /\ UNCHANGED <<statevars, file, procvars, othervars>>

Next ==
  \/ Start
  \/ InitFetched
  \/ InitSaveEnd
  \/ StartupSent
  \/ ScanStart
  \/ \E th \in Threads :
       \/ ScanFetched(th)
       \/ ArbSent(th)
       \/ NewsFetched(th)
       \/ MoveSent(th)
       \/ CorrSent(th)
       \/ SnapshotSent(th)
       \/ HeartbeatSent(th)
       \/ ScanSaveEnd(th)
  \/ Crash
  \/ Elapse

Spec == Init /\ [][Next]_vars

(***************************************************************************)
(* SpecCycle: one run of the process that is not killed, in which the      *)
(* calls a cycle awaits may raise                                          *)
(***************************************************************************)

\* the awaits of market_scan: all of them are inside its try block
TryAwaits == {"fetch", "arb", "news", "move", "corr", "snapshot", "heartbeat"}

\* whether the except Exception of market_scan catches what is raised where
\* the cycle is suspended
Caught_Never(at) == FALSE
Caught(at) == at \in TryAwaits

\* market_scan: the call it awaits raises an Exception.  Caught, it is logged
\* and the degraded-mode alert is awaited; otherwise it leaves market_scan,
\* and main() ends with it when the call was its own
ScanRaised(th) ==
  /\ scan[th].pc \in TryAwaits
  /\ NoDump
  /\ scan' = [scan EXCEPT ![th] =
                IF Caught(scan[th].pc) THEN AwaitAt(@, "degraded", <<>>, 0)
                ELSE [IdleScan EXCEPT !.pc = "escaped"]]
  /\ pc' = IF ~Caught(scan[th].pc) /\ th = "direct" THEN "down" ELSE pc
  /\ UNCHANGED <<statevars, now, file, run, cycles, alerts, persisted, committed,
                 othervars>>

\* market_scan: notifier.send of the degraded-mode alert has returned, or has
\* raised and the inner except has passed: the cycle is over, nothing is saved
DegradedSent(th) ==
  /\ scan[th].pc = "degraded"
  /\ NoDump
  /\ alerts' = [alerts EXCEPT !["degraded"] =
                  @ \cup {[n |-> scan[th].n, at |-> now, run |-> run]}]
  /\ scan' = [scan EXCEPT ![th] = IF th = "direct" THEN [IdleScan EXCEPT !.pc = "done"]
                                  ELSE IdleScan]
  /\ UNCHANGED <<statevars, now, file, pc, run, cycles, persisted, committed, othervars>>

NextCycle ==
  \/ Start
  \/ InitFetched
  \/ InitSaveEnd
  \/ StartupSent
  \/ ScanStart
  \/ \E th \in Threads :
       \/ ScanFetched(th)
       \/ ArbSent(th)
       \/ NewsFetched(th)
       \/ MoveSent(th)
       \/ CorrSent(th)
       \/ SnapshotSent(th)
       \/ HeartbeatSent(th)
       \/ ScanSaveEnd(th)
       \/ ScanRaised(th)
       \/ DegradedSent(th)
  \/ Elapse

SpecCycle == Init /\ [][NextCycle]_vars

(***************************************************************************)
(* SpecFetch: the cycles of the interval job of a running process, on what *)
(* the two APIs answer                                                     *)
(***************************************************************************)

FetchTitle == <<"a", "b">>

\* an entry of the Kalshi answer
KalshiEntryOf(i, iran, yes_ask, last_price) ==
  [id |-> i, title |-> FetchTitle, subtitle |-> <<>>, iran |-> iran,
   yes_ask |-> yes_ask, last_price |-> last_price]

\* the first entry of a batch: priced by yes_ask, by last_price, by neither,
\* by a text, or no Iran market
KalshiFirsts ==
  {KalshiEntryOf(1, TRUE, JsonNum(55), JsonNone),
   KalshiEntryOf(1, TRUE, JsonNone, JsonNum(55)),
   KalshiEntryOf(1, TRUE, JsonNone, JsonNone),
   KalshiEntryOf(1, TRUE, JsonStr, JsonNone),
   KalshiEntryOf(1, FALSE, JsonNum(55), JsonNone)}

Http(status, data) == [kind |-> "http", status |-> status, data |-> data]
Raised == [kind |-> "raised"]

\* the request fails, or answers a batch of two entries
KalshiResponses ==
  {Raised, Http(503, <<>>)} \cup
  {Http(200, <<e, KalshiEntryOf(2, TRUE, JsonNum(40), JsonNone)>>) : e \in KalshiFirsts}

\* a market of a Polymarket event
PolyEntryOf(i, outcomePrices, bestAsk) ==
  [id |-> i, question |-> FetchTitle, expired |-> FALSE, outcomePrices |-> outcomePrices,
   bestAsk |-> bestAsk, lastTradePrice |-> JsonNone]

\* the first market of the event: priced by outcomePrices, by bestAsk, by
\* neither, by outcomePrices that is no list, or by a bestAsk that is a text
PolyFirsts ==
  {PolyEntryOf(1, [t |-> "list", v |-> <<62, 38>>], JsonNone),
   PolyEntryOf(1, JsonNone, JsonNum(62)),
   PolyEntryOf(1, JsonNone, JsonNone),
   PolyEntryOf(1, [t |-> "scalar"], JsonNone),
   PolyEntryOf(1, JsonNone, JsonStr)}

\* one event of two markets, the second without an id of its own
PolyEvent(first) ==
  [id |-> 2, title |-> FetchTitle, iran |-> TRUE,
   markets |-> <<first, PolyEntryOf(0, [t |-> "list", v |-> <<40, 60>>], JsonNone)>>]

PolyData == {<<PolyEvent(e)>> : e \in PolyFirsts}

\* the answers to the three tag queries: none, or the first one the same
\* events again
PolySearches(data) ==
  {<<Raised, Http(503, <<>>), Raised>>, <<Http(200, data), Http(503, <<>>), Raised>>}

PolyResponses ==
  {[poly |-> Raised, searches |-> <<Raised, Raised, Raised>>],
   [poly |-> Http(503, <<>>), searches |-> <<Raised, Raised, Raised>>]} \cup
  UNION {{[poly |-> Http(200, d), searches |-> q] : q \in PolySearches(d)} : d \in PolyData}

\* what the two fetches return on the answers r
Fetched(r) ==
  [poly |-> fetch_polymarket_iran(r.poly, r.searches), kalshi |-> fetch_kalshi_iran(r.kalshi)]

\* the markets main() fetched and recorded at its start
InitialMarkets ==
  <<PolyMarket(1, [title |-> FetchTitle, event_title |-> FetchTitle, yes_price |-> 55]),
    KalshiMarket(1, [title |-> FetchTitle, subtitle |-> <<>>, yes_price |-> 40, n |-> 1])>>

\* the State main() saved at its start, counted once by a first cycle that
\* found no market
StateAtStart ==
  [EmptyState EXCEPT !.price_history = RecordAll(EmptyMap, InitialMarkets, 1, 0),
                     !.scan_count = HEARTBEAT_EVERY - 1]

\* the process is running: main() has loaded a file, recorded the markets of
\* its initial fetch, and its own call of market_scan has found no market
\* and has saved
InitFetch ==
  /\ NoDetCall
  /\ NoMoveCall
  /\ NoApiCall
  /\ NoPersistCall
  /\ price_history = StateAtStart.price_history
  /\ sent_arb_alerts = EmptyMap
  /\ sent_corr_alerts = EmptyMap
  /\ sent_move_alerts = EmptyMap
  /\ scan_count = StateAtStart.scan_count
  /\ now = 0
  /\ file = DocFile(save_document(StateAtStart, 0))
  /\ committed = file
  /\ pc = "running"
  /\ scan = [th \in Threads |-> IF th = "direct" THEN [IdleScan EXCEPT !.pc = "done"]
                                ELSE IdleScan]
  /\ run = 1
  /\ cycles = 1
  /\ alerts = [c \in Channels |-> {}]
  /\ persisted = [c \in Classes |-> {}]
  /\ responses = NoResponses

\* market_scan: the APIs have answered the requests of the cycle
Responded(th) ==
  /\ scan[th].pc = "fetch"
  /\ responses.n # scan[th].n
  /\ \E p \in PolyResponses, k \in KalshiResponses :
       responses' = [n |-> scan[th].n, poly |-> p.poly, searches |-> p.searches, kalshi |-> k]
  /\ UNCHANGED <<statevars, now, file, pc, scan, run, cycles, alerts, persisted, committed,
                 detvars, movevars, persvars, apivars>>

\* market_scan: fetch_polymarket_iran and fetch_kalshi_iran have returned
FetchReturned(th) ==
  /\ responses.n = scan[th].n
  /\ ScanFetchedWith(th, Fetched(responses))

NextFetch ==
  \/ ScanStart
  \/ \E th \in Threads :
       \/ Responded(th)
       \/ FetchReturned(th)
       \/ ArbSent(th)
       \/ NewsFetched(th)
       \/ MoveSent(th)
       \/ CorrSent(th)
       \/ SnapshotSent(th)
       \/ HeartbeatSent(th)
       \/ ScanSaveEnd(th)
  \/ Elapse

SpecFetch == InitFetch /\ [][NextFetch]_vars

(***************************************************************************)
(* Properties of find_arbitrage_opportunities (SpecArb)                    *)
(***************************************************************************)

ArbCalled == a_side # "none"
MatchedSet == {matched[n] : n \in 1..Len(matched)}
IsOne(score) == score[1] = score[2]
Accepts(score) == RatioGE(score, MATCH_THRESHOLD)

\* C7: within one invocation no market of the second list (the B side) is paired
\* with two different markets of the first list: every B index occurs in at most
\* one accepted pair.
C7_EachBMatchedOnce ==
  \A m \in 1..Len(matched), n \in 1..Len(matched) :
    m # n => matched[m].b # matched[n].b

\* C7: two A-markets both score above the acceptance threshold against the same
\* B-market, the first took it and the second did not get it.
C7_Witness ==
  /\ ArbCalled
  /\ Len(ArgA) = 2
  /\ \E j \in 1..Len(ArgB) :
       /\ Accepts(Score(ArgA[1], ArgB[j]))
       /\ Accepts(Score(ArgA[2], ArgB[j]))
       /\ \E m \in MatchedSet : m.a = 1 /\ m.b = j
       /\ \A m \in MatchedSet : m.a = 2 => m.b # j

\* an earlier A-market has consumed B-market j (its id) before A-market i is looked at
ConsumedEarlier(i, j) ==
  \E m \in MatchedSet : m.a < i /\ ArgB[m.b].id = ArgB[j].id

\* the title of A-market i and B-market j is the title of no other market
OnlyPairTitled(i, j) ==
  /\ \A x \in 1..Len(ArgA) : x # i => ArgA[x].title # ArgA[i].title
  /\ \A y \in 1..Len(ArgB) : y # j => ArgB[y].title # ArgB[j].title

CandidatesOf(m) ==
  {n \in 1..Len(opportunities) :
     /\ opportunities[n].poly_url = ArgA[m.a].url
     /\ opportunities[n].kalshi_url = ArgB[m.b].url}

\* |probability_a - probability_b| in percentage points
TrueGap(m) == Abs(ArgA[m.a].yes_price - ArgB[m.b].yes_price)

\* C9 as claimed: for every accepted pair the gap is |probability_a - probability_b|
\* in percentage points, a candidate is emitted iff that gap >= the threshold
\* (62 / 55: emitted at thresholds 5 and 7, not at 8), and the gap the candidate
\* reports is the gap that was compared to the threshold.
C9_EmittedIffGapAtThreshold ==
  ArbCalled =>
    \A m \in MatchedSet :
      /\ (CandidatesOf(m) # {}) <=> (TrueGap(m) >= threshold_pct)
      /\ \A n \in CandidatesOf(m) :
           /\ opportunities[n].gap_pct = TrueGap(m)
           /\ GapOf(ArgA[m.a], ArgB[m.b]) = [k |-> opportunities[n].gap_pct, e |-> 0]

(***************************************************************************)
(* Properties of find_big_moves (SpecMoves)                                *)
(***************************************************************************)

\* the candidates returned for the market at index i of all_markets
MovesOf(i) == {n \in 1..Len(moves) : moves[n].market = all_markets[i]}

\* current - first history entry, in percentage points
TrueDelta(i) ==
  all_markets[i].yes_price - HistoryOf(price_history, all_markets[i].id)[1].price

\* C10 as claimed: for every market with at least one history entry, delta is
\* current - first history entry in percentage points and a candidate is emitted
\* iff |delta| >= the move threshold (40 -> 55 is +15: emitted at 10, not at 20).
C10_MoveEmittedIffDeltaAtThreshold ==
  moves_called =>
    \A i \in 1..Len(all_markets) :
      HistoryOf(price_history, all_markets[i].id) # <<>> =>
        /\ (MovesOf(i) # {}) <=> (Abs(TrueDelta(i)) >= threshold_pct)
        /\ \A n \in MovesOf(i) : moves[n].delta = TrueDelta(i)

(***************************************************************************)
(* Properties of the cooldown methods (SpecCooldown)                       *)
(***************************************************************************)

\* C1: in each class and for every key, can_alert_*(key, cooldown) returns true iff
\* mark_*_alert(key) was never called or more than cooldown has passed since its
\* last call (at exactly last + cooldown it still returns false), and
\* mark_*_alert(key) records the instant of the call as the key's last_fired_at.
C1_CooldownContract ==
  /\ \A cls \in Classes : SentMap(cls) = fired[cls]
  /\ answer # NoAnswer =>
       (answer.result <=>
          \/ answer.key \notin DOMAIN fired[answer.cls]
          \/ now - fired[answer.cls][answer.key] > answer.cooldown)

\* C1: a key was marked, exactly the cooldown has passed, and can_alert_* has
\* just returned false for it.
C1_Witness ==
  /\ answer # NoAnswer
  /\ answer.key \in DOMAIN fired[answer.cls]
  /\ now - fired[answer.cls][answer.key] = answer.cooldown
  /\ answer.cooldown > 0
  /\ answer.cls = "arb"
  /\ ~answer.result

(***************************************************************************)
(* Properties of loading and saving (SpecPersist)                          *)
(***************************************************************************)

\* the file holds a document of the shape the class's save() writes
ExpectedShape(cls, f) ==
  /\ f.kind = "doc"
  /\ DOMAIN f.doc = IF cls = "State" THEN DOMAIN EmptyState ELSE DOMAIN BotDefaults

\* C5: a constructor never raises, and when the file is missing, fails to
\* parse or is not a document of the expected shape, the object it builds is
\* the empty, zero-valued one.
C5_LoadFallsBackToEmpty ==
  built # NotBuilt =>
    /\ ~built.raised
    /\ (built.cls = "State" /\ ~ExpectedShape("State", built.file))
         => StateNow = EmptyState
    /\ (built.cls = "BotState" /\ ~ExpectedShape("BotState", built.file))
         => bot = BotDefaults

\* the indices of the entries of history h inside the retention window of a
\* save at instant at, and among them the HISTORY_CAP most recent
InWindow(h, at) == {i \in 1..Len(h) : at - h[i].ts < RETENTION}
Retained(h, at) ==
  {i \in InWindow(h, at) : Cardinality({j \in InWindow(h, at) : j > i}) < HISTORY_CAP}

\* loaded is h restricted to the indices keep, in the order of h
IsRestriction(loaded, h, keep) ==
  /\ Len(loaded) = Cardinality(keep)
  /\ \A k \in 1..Len(loaded) :
       \E i \in keep : /\ Cardinality({j \in keep : j < i}) = k - 1
                       /\ loaded[k] = h[i]

\* C6: a State built from the file a save() wrote has the three cooldown maps
\* and the scan_count of the State that was saved and, for every market,
\* exactly its history entries inside the retention window (the most recent
\* HISTORY_CAP of them), in the same order.
C6_SaveLoadRoundTrip ==
  (built.cls = "State" /\ snap.valid) =>
    /\ sent_arb_alerts = snap.state.sent_arb_alerts
    /\ sent_corr_alerts = snap.state.sent_corr_alerts
    /\ sent_move_alerts = snap.state.sent_move_alerts
    /\ scan_count = snap.state.scan_count
    /\ \A mid \in DOMAIN price_history \cup DOMAIN snap.state.price_history :
         LET h == HistoryOf(snap.state.price_history, mid)
         IN IsRestriction(HistoryOf(price_history, mid), h, Retained(h, snap.at))

\* C6: a State was saved with a market whose history had entries outside the
\* window and more than HISTORY_CAP inside it, a market with none inside, and
\* non-empty cooldown maps, and a new State has been built from that file.
C6_Witness ==
  /\ built.cls = "State"
  /\ snap.valid
  /\ \E mid \in DOMAIN snap.state.price_history :
       LET h == snap.state.price_history[mid]
       IN /\ Cardinality(InWindow(h, snap.at)) > HISTORY_CAP
          /\ Cardinality(InWindow(h, snap.at)) < Len(h)
          /\ Len(HistoryOf(price_history, mid)) = HISTORY_CAP
  /\ \E mid \in DOMAIN snap.state.price_history : mid \notin DOMAIN price_history
  /\ sent_arb_alerts # EmptyMap
  /\ sent_move_alerts # EmptyMap
  /\ scan_count > 0

(***************************************************************************)
(* Properties of the process (Spec)                                        *)
(***************************************************************************)

\* C2: within one run of the process, two alerts of the same class with the
\* same alert key are never delivered within the class's cooldown of each
\* other.
C2_NoRepeatWithinCooldown ==
  \A c \in Classes : \A a \in alerts[c], b \in alerts[c] :
    (a # b /\ a.key = b.key /\ a.run = b.run /\ a.at <= b.at)
      => b.at - a.at > Cooldown(c)

\* C3: an alert whose cooldown record was written by a completed save() is
\* not delivered again, within the cooldown of that record, by a later run of
\* the process.
C3_CooldownSurvivesRestart ==
  \A c \in Classes : \A p \in persisted[c], a \in alerts[c] :
    (a.key = p.key /\ a.run > p.run /\ a.at >= p.at)
      => a.at - p.at > Cooldown(c)

\* C4: whenever the process has been killed, the state file is as the last
\* completed save() left it: never empty, truncated or partially written.
C4_SaveIsAtomic == pc = "down" => file = committed

(***************************************************************************)
(* Properties of a restart after a long stop (SpecPersist)                 *)
(***************************************************************************)

\* the file holds a history for market mid, all of it outside the retention
\* window that ends at instant at
StaleOnly(f, mid, at) ==
  /\ f.kind = "doc"
  /\ "price_history" \in DOMAIN f.doc
  /\ mid \in DOMAIN f.doc.price_history
  /\ f.doc.price_history[mid] # <<>>
  /\ InWindow(f.doc.price_history[mid], at) = {}

\* C11: when the file a State is built from holds, for a market, only entries
\* older than the retention window, the State built has no history for that
\* market, and after the following cycle its history holds no entry older than
\* the window and find_big_moves has returned no move for it other than one
\* of delta 0.
C11_StaleHistoryNotUsed ==
  built.cls \in {"State", "scanned"} =>
    \A mid \in {"m1", "m2"} :
      StaleOnly(built.file, mid, now) =>
        /\ built.cls = "State" => HistoryOf(price_history, mid) = <<>>
        /\ built.cls = "scanned" =>
             /\ InWindow(HistoryOf(price_history, mid), now)
                  = 1..Len(HistoryOf(price_history, mid))
             /\ \A n \in 1..Len(moves) :
                  moves[n].market.id = mid => moves[n].delta = 0

(***************************************************************************)
(* Properties of find_correlation_anomalies (SpecCorr)                     *)
(***************************************************************************)

\* current - first history entry of market m, in percentage points
TrueMove(m) == m.yes_price - HistoryOf(price_history, m.id)[1].price

\* C12: every anomaly returned is for a pair judged correlated, its mover has
\* |delta| at or above the move threshold and its laggard has |delta| below
\* 0.3 x the threshold (so below the threshold too): pairs where both moved,
\* neither moved, or the quiet side moved 0.3 x the threshold or more give none.
C12_AnomalyOnlyWhenOneSideMoved ==
  moves_called =>
    \A n \in 1..Len(anomalies) :
      LET a == anomalies[n].mover.market
          b == anomalies[n].laggard.market
      IN /\ a # b
         /\ is_correlated(lower(a.title), lower(b.title))
         /\ Abs(TrueMove(a)) >= CORRELATION_MOVE_PCT
         /\ 10 * Abs(TrueMove(b)) < 3 * CORRELATION_MOVE_PCT

\* C13: the cooldown of a correlation alert covers its pair of markets in
\* either order: two correlation alerts sent for the same two markets,
\* whichever of them was the mover, are more than the cooldown apart.
C13_PairKeyIsCanonical ==
  \A a \in alerts["corr"], b \in alerts["corr"] :
    (a # b /\ {a.mover, a.laggard} = {b.mover, b.laggard} /\ a.at <= b.at)
      => b.at - a.at > CORR_COOLDOWN

(***************************************************************************)
(* Properties of the alert keys (SpecArb)                                  *)
(***************************************************************************)

\* C14: the gap alert key identifies the matched pair: two different
\* opportunities returned by one call, which are two different pairs of
\* markets, never have the same alert key.
C14_GapKeyIdentifiesPair ==
  ArbCalled =>
    \A m \in 1..Len(opportunities), n \in 1..Len(opportunities) :
      m # n => ArbKey(opportunities[m]) # ArbKey(opportunities[n])

(***************************************************************************)
(* Properties of the scheduling of market_scan (Spec)                      *)
(***************************************************************************)

\* C15: at most one execution of market_scan is in progress: the call main()
\* makes itself and the interval job are never both inside a cycle.
C15_SingleFlight ==
  \E th \in Threads : scan[th] = IdleScan

(***************************************************************************)
(* Properties of delivery (SpecCorr)                                       *)
(***************************************************************************)

\* C16: a key is in cooldown only for an alert that was delivered: every key
\* of sent_corr_alerts was marked at the instant of an alert for that key
\* whose notification Notifier.send delivered.
C16_MarkedOnlyIfDelivered ==
  \A key \in DOMAIN sent_corr_alerts :
    \E a \in alerts["corr"] :
      a.key = key /\ a.at = sent_corr_alerts[key] /\ a.delivered

(***************************************************************************)
(* Properties of a failing cycle (SpecCycle)                               *)
(***************************************************************************)

\* C17: an exception raised inside a market_scan cycle never leaves
\* market_scan: main() does not end with it and no cycle is left as escaped,
\* so the following cycles run; and a failed cycle sends its degraded-mode
\* alert at most once.
C17_FailureStaysInsideCycle ==
  /\ run > 0 => pc # "down"
  /\ \A th \in Threads : scan[th].pc # "escaped"
  /\ \A a \in alerts["degraded"], b \in alerts["degraded"] :
       (a.n = b.n /\ a.run = b.run) => a = b

\* C17: the cycle main() called itself has failed and sent its degraded-mode
\* alert, and a later cycle of the interval job is in progress.
C17_Witness ==
  /\ pc = "running"
  /\ scan["direct"].pc = "done"
  /\ \E a \in alerts["degraded"] : a.n = 1 /\ scan["job"].n > 1
  /\ scan["job"].pc \in TryAwaits

(***************************************************************************)
(* Properties of a cycle on failing and malformed answers (SpecFetch)      *)
(***************************************************************************)

\* the request of a platform fails: it raises, or its status is not 200
RequestFailed(r) == r.kind = "raised" \/ r.status # 200

\* the cycle of th is behind its fetch, on the answers held in responses
FetchedBy(th) ==
  /\ responses.n = scan[th].n
  /\ scan[th].pc = "fetch"
  /\ scan'[th].pc # "fetch"

\* the fetch of exactly one platform has failed; other is what the fetch of
\* the other platform returned
OneFailed(other) ==
  \/ /\ RequestFailed(responses.poly)
     /\ ~RequestFailed(responses.kalshi)
     /\ other = fetch_kalshi_iran(responses.kalshi)
  \/ /\ RequestFailed(responses.kalshi)
     /\ ~RequestFailed(responses.poly)
     /\ other = fetch_polymarket_iran(responses.poly, responses.searches)

\* the cycle goes on with the markets of the other platform alone: they are
\* all its markets, they are recorded, the arbitrage scan finds nothing and
\* the cycle is where find_big_moves and find_correlation_anomalies on them
\* lead it
GoesOnWith(th, other) ==
  /\ scan'[th].poly \o scan'[th].kalshi = other
  /\ other # <<>> =>
       /\ price_history' = RecordAll(price_history, other, 1, now)
       /\ find_arbitrage_opportunities(scan'[th].poly, scan'[th].kalshi,
                                       ARBITRAGE_THRESHOLD_PCT) = <<>>
       /\ scan'[th] = EnterMoves([scan[th] EXCEPT !.poly = scan'[th].poly,
                                                  !.kalshi = scan'[th].kalshi],
                                 [StateNow EXCEPT !.price_history = price_history'], now)

\* the cycle of th ends
CycleEnds(th) == scan[th].pc \notin {"idle", "done"} /\ scan'[th].pc \in {"idle", "done"}

\* C18: when the fetch of one platform fails, the cycle continues with zero
\* markets of that platform: the markets of the other platform are recorded
\* in the history and evaluated by find_big_moves and
\* find_correlation_anomalies, the arbitrage scan yields nothing, and the
\* cycle ends with the State saved.
C18_FailedPlatformIsEmpty ==
  [][\A th \in Threads :
       /\ FetchedBy(th) =>
            \A other \in {fetch_kalshi_iran(responses.kalshi),
                           fetch_polymarket_iran(responses.poly, responses.searches)} :
              OneFailed(other) => GoesOnWith(th, other)
       /\ CycleEnds(th) => file' = DocFile(save_document(StateNow, now))]_vars

\* C18: a cycle whose Polymarket request failed has recorded the Kalshi
\* market, alerted its big move, and saved both.
C18_Witness ==
  /\ responses.n = cycles
  /\ RequestFailed(responses.poly)
  /\ ~RequestFailed(responses.kalshi)
  /\ scan["job"] = IdleScan
  /\ file.kind = "doc"
  /\ Len(file.doc.price_history["kalshi_1"]) = 2
  /\ Len(file.doc.price_history["poly_1"]) = 1
  /\ "kalshi_1" \in DOMAIN file.doc.sent_move_alerts

\* the cycle of th is behind its fetch, on the answers held in responses
BehindFetch(th) ==
  responses # NoResponses /\ responses.n = scan[th].n /\ scan[th].pc \notin {"fetch", "idle"}

\* a positive number
UsablePrice(x) == x.t = "num" /\ x.v > 0

\* the entry of a Kalshi batch carries a probability
KalshiUsable(e) == UsablePrice(Or(e.yes_ask, e.last_price))

\* the market of a Polymarket event carries a probability
PolyUsable(m) ==
  \/ m.outcomePrices.t = "list" /\ m.outcomePrices.v # <<>>
  \/ UsablePrice(Or(m.bestAsk, m.lastTradePrice))

\* the ids of the Iran markets of a batch that carry a probability
KalshiUsableIds(data) ==
  {KalshiId(data[i].id) : i \in {j \in 1..Len(data) : data[j].iran /\ KalshiUsable(data[j])}}

PolyUsableIds(data) ==
  UNION {{PolyId(PolyEntryId(data[i], data[i].markets[j])) :
            j \in {k \in 1..Len(data[i].markets) : PolyUsable(data[i].markets[k])}} :
         i \in {h \in 1..Len(data) : data[h].iran}}

IdsOf(markets) == {markets[i].id : i \in 1..Len(markets)}

\* C19: an entry without a usable probability is skipped, and it alone: the
\* markets a fetch returns from an answered batch are those of exactly the
\* Iran entries that carry a probability, none of them has probability 0,
\* and only they have a history entry of this cycle.
C19_UnusableEntrySkippedAlone ==
  \A th \in Threads :
    BehindFetch(th) =>
      /\ ~RequestFailed(responses.kalshi) =>
           IdsOf(scan[th].kalshi) = KalshiUsableIds(responses.kalshi.data)
      /\ ~RequestFailed(responses.poly) =>
           IdsOf(scan[th].poly) = PolyUsableIds(responses.poly.data)
      /\ \A i \in 1..Len(scan[th].kalshi) : scan[th].kalshi[i].yes_price > 0

(***************************************************************************)
(* Properties of the saved history (SpecPersist)                           *)
(***************************************************************************)

\* the history the file holds for market mid
PersistedHistory(mid) == HistoryOf(file.doc.price_history, mid)

\* saved is a subsequence of h: its entries are entries of h at increasing
\* indices
IsSubsequence(saved, h) ==
  \E at \in [1..Len(saved) -> 1..Len(h)] :
    /\ \A k \in 1..Len(saved) : saved[k] = h[at[k]]
    /\ \A k \in 1..Len(saved), l \in 1..Len(saved) : k < l => at[k] < at[l]

\* how many entries of h equal e
CountOf(h, e) == Cardinality({i \in 1..Len(h) : h[i] = e})

CooldownCap == 1

\* C21: save() bounds the growth of the document: after a save() no
\* cooldown map in the file holds more than CooldownCap keys.
C21_SavedCooldownMapsAreCapped ==
  snap.valid =>
    /\ file.kind = "doc"
    /\ \A c \in {"sent_arb_alerts", "sent_corr_alerts", "sent_move_alerts"} :
         Cardinality(DOMAIN file.doc[c]) <= CooldownCap

(***************************************************************************)
(* Properties of the normalization of titles (SpecNorm)                    *)
(***************************************************************************)

\* the normalization as specified: lowercase, strip one leading auxiliary
\* with the whitespace behind it, strip one trailing "?", collapse runs of
\* whitespace
Auxiliaries == {<<"i", "s">>}

StartsWith(s, w) == Len(s) >= Len(w) /\ SubSeq(s, 1, Len(w)) = w

StripAuxiliary(s) ==
  IF \E w \in Auxiliaries : StartsWith(s, w) /\ Len(s) > Len(w) /\ IsSpace(s[Len(w) + 1])
  THEN lstrip(SubSeq(s, 1 + Len(CHOOSE w \in Auxiliaries : StartsWith(s, w)), Len(s)))
  ELSE s

StripQuestionMark(s) ==
  IF s # <<>> /\ s[Len(s)] = "?" THEN SubSeq(s, 1, Len(s) - 1) ELSE s

RECURSIVE CollapseSpaces(_)
CollapseSpaces(s) ==
  IF Len(s) < 2 THEN s
  ELSE IF IsSpace(s[1]) /\ IsSpace(s[2]) THEN CollapseSpaces(Tail(s))
  ELSE <<s[1]>> \o CollapseSpaces(Tail(s))

SpecifiedNormalize(x) == CollapseSpaces(StripQuestionMark(StripAuxiliary(lower(x))))

\* the titles the call normalizes
ComparedTitles == {poly_markets[1].title, kalshi_markets[1].title}

\* C22: the normalization the matcher applies to a title is the specified
\* one (lowercase, leading auxiliary and one trailing "?" stripped,
\* whitespace runs collapsed) and it is idempotent.
C22_NormalizeIdempotent ==
  ArbCalled =>
    \A x \in ComparedTitles :
      /\ title_norm(x) = SpecifiedNormalize(x)
      /\ title_norm(title_norm(x)) = title_norm(x)

\* two fields that are present and differ at most by letter case and by
\* leading or trailing whitespace
SameButCaseAndMargin(x, y) ==
  x # <<>> /\ y # <<>> /\ strip(lower(x)) = strip(lower(y))

\* one of the three comparisons of A-market a with B-market b is between two
\* such fields
ComparesSame(a, b) ==
  \/ SameButCaseAndMargin(a.title, b.title)
  \/ SameButCaseAndMargin(a.title, b.subtitle)
  \/ SameButCaseAndMargin(a.event_title, b.title)

\* C23: every comparison normalizes both of its strings alike: when one of
\* the three comparisons of the pair is between fields that differ only by
\* letter case or by leading or trailing whitespace, the pair has
\* similarity 1.0.
C23_BothSidesNormalizedAlike ==
  ArbCalled =>
    (ComparesSame(ArgA[1], ArgB[1]) => \E m \in MatchedSet : IsOne(m.score))

(***************************************************************************)
(* Properties of the detectors as functions (SpecPure)                     *)
(***************************************************************************)

\* the results of the calls made so far
DetectorResults == <<a_side, matched, opportunities, moves_called, moves, anomalies>>

Descending(keys) == \A n \in 1..(Len(keys) - 1) : keys[n] >= keys[n + 1]

\* C25: the list find_arbitrage_opportunities returns is in descending order
\* of gap and holds a candidate for every accepted pair whose gap is at or
\* above the threshold, however many there are.
C25_OpportunitiesSortedAndComplete ==
  ArbCalled =>
    /\ Descending([n \in 1..Len(opportunities) |-> opportunities[n].gap_pct])
    /\ \A m \in MatchedSet : TrueGap(m) >= threshold_pct => CandidatesOf(m) # {}

\* C26: the list find_big_moves returns is in descending order of |delta|
\* and holds every market with a history whose |delta| is at or above the
\* threshold.
C26_MovesSortedAndComplete ==
  moves_called =>
    /\ Descending([n \in 1..Len(moves) |-> Abs(moves[n].delta)])
    /\ \A i \in 1..Len(all_markets) :
         (/\ HistoryOf(price_history, all_markets[i].id) # <<>>
          /\ Abs(TrueDelta(i)) >= threshold_pct) => MovesOf(i) # {}


(***************************************************************************)
(* Properties of the correlation decision (SpecOrder)                      *)
(***************************************************************************)

\* the list given in reverse order
Reversed(items) == [i \in 1..Len(items) |-> items[Len(items) + 1 - i]]

\* the {mover, laggard} pairs of a list of anomalies, by market id
AnomalyPairs(found) ==
  {<<found[n].mover.market.id, found[n].laggard.market.id>> : n \in 1..Len(found)}

\* one keyword of some table pair occurs in x and the other in y, whatever
\* the case of x and y
KeywordLinked(x, y) ==
  \E h \in 1..Len(CORRELATION_HINTS) :
    \/ Contains(lower(x), CORRELATION_HINTS[h][1]) /\ Contains(lower(y), CORRELATION_HINTS[h][2])
    \/ Contains(lower(x), CORRELATION_HINTS[h][2]) /\ Contains(lower(y), CORRELATION_HINTS[h][1])

\* C27: two titles with one keyword of a table pair in each are judged
\* correlated whichever comes first and whatever their case, and the call on
\* the market list in reverse order returns the same set of {mover, laggard}
\* anomalies.
C27_CorrelationOrderIndependent ==
  moves_called =>
    /\ \A i \in 1..Len(all_markets), j \in 1..Len(all_markets) :
         KeywordLinked(all_markets[i].title, all_markets[j].title) =>
           /\ is_correlated(lower(all_markets[i].title), lower(all_markets[j].title))
           /\ is_correlated(lower(all_markets[j].title), lower(all_markets[i].title))
    /\ AnomalyPairs(anomalies)
         = AnomalyPairs(find_correlation_anomalies(Reversed(all_markets), price_history))


(***************************************************************************)
(* Properties of the greedy matching (SpecArb)                             *)
(***************************************************************************)

\* an earlier A-market than i was paired with B-market j
PairedEarlier(i, j) == \E m \in MatchedSet : m.a < i /\ m.b = j

\* the B-markets no earlier A-market than i was paired with
Unconsumed(i) == {j \in 1..Len(ArgB) : ~PairedEarlier(i, j)}

\* the comparisons made for a pair: title/title, title/subtitle and
\* parent-title/title, the last two when the field is there
ComparisonsOf(pm, km) ==
  {ratio(title_norm(pm.title), title_norm(km.title))}
  \cup (IF km.subtitle # <<>>
        THEN {ratio(title_norm(pm.title), lower(km.subtitle))} ELSE {})
  \cup (IF pm.event_title # <<>>
        THEN {ratio(lower(pm.event_title), title_norm(km.title))} ELSE {})

\* score is the largest of the comparisons of the pair
IsMaxComparison(score, pm, km) ==
  /\ score \in ComparisonsOf(pm, km)
  /\ \A c \in ComparisonsOf(pm, km) : RatioGE(score, c)

\* C28: the accepted pairs come in the list order of the A-markets; each
\* A-market is paired with the highest-scoring B-market among those no
\* earlier A-market was paired with, the earliest of them on a tie, the score
\* being the maximum of the three comparisons; an A-market left unpaired has
\* no such B-market at or above the acceptance threshold; and no A-market is
\* paired with a B-market an earlier one was paired with.
C28_GreedyFirstCome ==
  ArbCalled =>
    /\ \A n \in 1..Len(matched), k \in 1..Len(matched) :
         n < k => matched[n].a < matched[k].a
    /\ \A m \in MatchedSet :
         /\ m.b \in Unconsumed(m.a)
         /\ IsMaxComparison(m.score, ArgA[m.a], ArgB[m.b])
         /\ \A j \in Unconsumed(m.a) :
              /\ RatioGE(m.score, Score(ArgA[m.a], ArgB[j]))
              /\ RatioGE(Score(ArgA[m.a], ArgB[j]), m.score) => m.b <= j
    /\ \A i \in 1..Len(ArgA) :
         (\A m \in MatchedSet : m.a # i) =>
           \A j \in Unconsumed(i) : ~Accepts(Score(ArgA[i], ArgB[j]))


\* the B-markets the loop looks at for A-market i: those whose id no earlier
\* accepted pair holds
Offered(i) == {j \in 1..Len(ArgB) : ~ConsumedEarlier(i, j)}

\* A-market i was paired
IsPaired(i) == \E m \in MatchedSet : m.a = i

\* C29: an A-market is paired iff the best score among the B-markets offered
\* to it is at or above the acceptance threshold; an A-market left unpaired
\* has no candidate and takes no B-market from the later ones, which are
\* offered every B-market no accepted pair holds; a pair accepted with a gap
\* below the gap threshold has no candidate and its B-market goes to no later
\* A-market.
C29_AcceptedIffAtThreshold ==
  ArbCalled =>
    /\ \A i \in 1..Len(ArgA) :
         /\ IsPaired(i) <=> \E j \in Offered(i) : Accepts(Score(ArgA[i], ArgB[j]))
         /\ ~IsPaired(i) =>
              \A n \in 1..Len(opportunities) : opportunities[n].poly_url # ArgA[i].url
    /\ \A m \in MatchedSet :
         /\ Accepts(m.score)
         /\ \A n \in MatchedSet : n.a > m.a => ArgB[n.b].id # ArgB[m.b].id

\* C29: the first A-market scored 0.4 at best and was left unpaired, and the
\* second was paired with the B-market of that best score, with a gap below
\* the gap threshold and so without a candidate.
C29_Witness ==
  /\ ArbCalled
  /\ Len(ArgA) = 2
  /\ ~IsPaired(1)
  /\ \E j \in 1..Len(ArgB) :
       /\ Score(ArgA[1], ArgB[j]) = <<2, 5>>
       /\ \A k \in 1..Len(ArgB) : RatioGE(Score(ArgA[1], ArgB[j]), Score(ArgA[1], ArgB[k]))
       /\ \E m \in MatchedSet : m.a = 2 /\ m.b = j /\ CandidatesOf(m) = {}
  /\ opportunities = <<>>

\* C29: the first A-market was paired with a gap below the gap threshold, and
\* the second, which scores 1.0 against that B-market, was not paired with it.
C29_ConsumedWithoutCandidate ==
  /\ ArbCalled
  /\ Len(ArgA) = 2
  /\ \E m \in MatchedSet :
       /\ m.a = 1
       /\ CandidatesOf(m) = {}
       /\ IsOne(Score(ArgA[2], ArgB[m.b]))
       /\ \A n \in MatchedSet : n.a = 2 => n.b # m.b


(***************************************************************************)
(* The history in memory behind a save (SpecPersist)                       *)
(***************************************************************************)

\* save() has just returned: the State in memory is the one it wrote
JustSaved == snap.valid /\ built = NotBuilt /\ snap.state = StateNow /\ snap.at = now

\* C30: when save() has returned, the history in memory of every market holds
\* no entry older than the retention window and at most HISTORY_CAP entries,
\* so that the first entry, the reference of find_big_moves and
\* find_correlation_anomalies, lies inside the window.
C30_MemoryHistoryIsTrimmed ==
  JustSaved =>
    \A mid \in DOMAIN price_history :
      /\ InWindow(price_history[mid], now) = 1..Len(price_history[mid])
      /\ Len(price_history[mid]) <= HISTORY_CAP


(***************************************************************************)
(* Properties of record_price (SpecRecord)                                 *)
(***************************************************************************)

\* the timestamps of a history never fall from one entry to the next
Ordered(h) == \A n \in 1..(Len(h) - 1) : h[n].ts <= h[n + 1].ts

\* price_history' is price_history with one entry of instant now behind the
\* history of market mid and nothing else changed
OneAppended(mid) ==
  /\ DOMAIN price_history' = DOMAIN price_history \cup {mid}
  /\ Len(price_history'[mid]) = Len(HistoryOf(price_history, mid)) + 1
  /\ SubSeq(price_history'[mid], 1, Len(price_history'[mid]) - 1)
       = HistoryOf(price_history, mid)
  /\ price_history'[mid][Len(price_history'[mid])].ts = now
  /\ price_history'[mid][Len(price_history'[mid])].price \in RecordPrices
  /\ \A other \in DOMAIN price_history : other # mid => price_history'[other] = price_history[other]

\* C31: record_price appends exactly one entry of the current instant behind
\* the history of its market, whatever the length of that history, and
\* changes no other history, no existing entry, no cooldown map and not
\* scan_count; and the history of every market is in non-decreasing order of
\* timestamp after any sequence of record_price, save() and State().
C31_RecordAppendsOne ==
  /\ [][RecordOne =>
          /\ \E mid \in {"m1", "m2"} : OneAppended(mid)
          /\ UNCHANGED <<sent_arb_alerts, sent_corr_alerts, sent_move_alerts, scan_count>>]_vars
  /\ [](\A mid \in DOMAIN price_history : Ordered(price_history[mid]))

\* C31: a price has just been recorded behind a history that already held
\* HISTORY_CAP entries, the first of them older than the retention window,
\* after a save() and a load.
C31_Witness ==
  /\ built = NotBuilt
  /\ snap.valid
  /\ file.kind = "doc"
  /\ "m1" \in DOMAIN price_history
  /\ "m2" \in DOMAIN price_history
  /\ Len(price_history["m1"]) > HISTORY_CAP
  /\ price_history["m1"][1].ts = Stale
  /\ price_history["m1"][Len(price_history["m1"])].ts = now
  /\ now > price_history["m1"][2].ts


(***************************************************************************)
(* Properties of the caps of market_scan (SpecCap)                         *)
(***************************************************************************)

\* what the detector of a class returned in the last cycle
FoundOf(cls) ==
  IF cls = "arb" THEN opportunities ELSE IF cls = "move" THEN moves ELSE anomalies

\* the cap of a class
CapOf(cls) == IF cls = "corr" THEN 2 ELSE 3

\* the keys of the candidates ranked inside the cap, and of those below it
KeysInsideCap(cls) ==
  {KeyOf(cls, FoundOf(cls)[k]) : k \in {r \in 1..Len(FoundOf(cls)) : r <= CapOf(cls)}}
KeysBelowCap(cls) ==
  {KeyOf(cls, FoundOf(cls)[k]) : k \in {r \in 1..Len(FoundOf(cls)) : r > CapOf(cls)}}
    \ KeysInsideCap(cls)

\* the alerts of a class sent by the last cycle
SentThisCycle(cls) == {a \in alerts[cls] : a.n = cycles}

\* C32: a cycle sends at most 3 gap, 3 move and 2 correlation alerts, all of
\* them for candidates ranked inside the cap of the detector's list, so a
\* candidate ranked below the cap is not alerted in that cycle whether or not
\* the cooldown lets the higher-ranked ones through.
C32_CapBeforeCooldown ==
  cycles > 0 =>
    \A cls \in Classes :
      /\ Cardinality(SentThisCycle(cls)) <= CapOf(cls)
      /\ \A a \in SentThisCycle(cls) : a.key \in KeysInsideCap(cls)
      /\ \A a \in SentThisCycle(cls) : a.key \notin KeysBelowCap(cls)

\* C32: in each class a candidate has been below the cap in every cycle and
\* was never alerted, and the last cycle sent no alert of the class at all,
\* every candidate inside the cap being in cooldown.
C32_Witness ==
  /\ cycles = MaxCapCycles
  /\ now = 1
  /\ \A cls \in Classes :
       /\ KeysBelowCap(cls) # {}
       /\ \A a \in alerts[cls] : a.key \notin KeysBelowCap(cls)
       /\ SentThisCycle(cls) = {}
       /\ Cardinality(alerts[cls]) = CapOf(cls)


(***************************************************************************)
(* Properties of the first observation of a market (SpecFirst)             *)
(***************************************************************************)

\* market i of the cycle had no history before the cycle: every entry under
\* its id was recorded by this cycle
FirstObserved(i) ==
  \A n \in 1..Len(HistoryOf(price_history, all_markets[i].id)) :
    price_history[all_markets[i].id][n].ts = now

\* C33: when the detectors of a cycle have run, every market of the cycle
\* has a history entry, and a market that had no history before the cycle is
\* in no big move and is the mover of no correlation anomaly.
C33_FirstObservationIsQuiet ==
  moves_called =>
    \A i \in 1..Len(all_markets) :
      /\ HistoryOf(price_history, all_markets[i].id) # <<>>
      /\ FirstObserved(i) =>
           /\ \A n \in 1..Len(moves) : moves[n].market # all_markets[i]
           /\ \A n \in 1..Len(anomalies) : anomalies[n].mover.market # all_markets[i]


(***************************************************************************)
(* Independence of the alert classes (SpecCooldown)                        *)
(***************************************************************************)

\* the cooldown map of a class after the step
SentMapAfter(cls) ==
  IF cls = "arb" THEN sent_arb_alerts'
  ELSE IF cls = "corr" THEN sent_corr_alerts'
  ELSE sent_move_alerts'

\* can_alert_* of class cls on the map sent
CanAlertIn(cls, sent, key, cooldown_minutes, t) ==
  IF cls = "arb" THEN can_alert_arb(sent, key, cooldown_minutes, t)
  ELSE IF cls = "corr" THEN can_alert_corr(sent, key, cooldown_minutes, t)
  ELSE can_alert_move(sent, key, cooldown_minutes, t)

\* the step has written the record of key in the map of cls and nothing else:
\* every other record of the three maps, and every answer of can_alert_* for
\* another key or another class, is as before
OnlyMarked(cls, key) ==
  /\ key \in DOMAIN SentMapAfter(cls)
  /\ SentMapAfter(cls)[key] = now
  /\ \A c \in Classes, k \in Keys :
       (c # cls \/ k # key) =>
         /\ (k \in DOMAIN SentMapAfter(c)) <=> (k \in DOMAIN SentMap(c))
         /\ k \in DOMAIN SentMap(c) => SentMapAfter(c)[k] = SentMap(c)[k]
         /\ \A cd \in {ARB_COOLDOWN, CORR_COOLDOWN, MOVE_COOLDOWN} :
              CanAlertIn(c, SentMapAfter(c), k, cd, now')
                = CanAlertIn(c, SentMap(c), k, cd, now)

\* C34: the three classes have maps of their own and default cooldowns of
\* 30, 60 and 120 minutes; a mark_*_alert(key) writes the record of that key
\* in the map of its class and changes no other record and no answer of
\* can_alert_* for another key or for the same key in another class.
C34_ClassesAreIndependent ==
  /\ [](ARB_COOLDOWN * 30 = 30 /\ CORR_COOLDOWN * 30 = 60 /\ MOVE_COOLDOWN * 30 = 120)
  /\ [][/\ MarkArb => \E key \in Keys : OnlyMarked("arb", key)
        /\ MarkCorr => \E key \in Keys : OnlyMarked("corr", key)
        /\ MarkMove => \E key \in Keys : OnlyMarked("move", key)]_vars

\* C34: a key is in cooldown in the arbitrage class, and can_alert_corr has
\* just returned true for the same key, which the correlation class never
\* marked, while another key of the correlation class is in its cooldown.
C34_Witness ==
  /\ answer # NoAnswer
  /\ answer.cls = "corr"
  /\ answer.cooldown = CORR_COOLDOWN
  /\ answer.result
  /\ answer.key \in DOMAIN sent_arb_alerts
  /\ ~can_alert_arb(sent_arb_alerts, answer.key, ARB_COOLDOWN, now)
  /\ answer.key \notin DOMAIN sent_corr_alerts
  /\ \E k \in DOMAIN sent_corr_alerts : ~can_alert_corr(sent_corr_alerts, k, CORR_COOLDOWN, now)


(***************************************************************************)
(* Notifier.send (SpecSend): one call, one step per awaited                *)
(* bot.send_message                                                        *)
(***************************************************************************)
\* the longest text Telegram takes in one message (the literal of send)
PART_CHARS == 4000
\* the lengths of the texts sent
TextLengths == {1, 4000, 4001, 8000, 8001}
\* the nested calls of send the interpreter allows before it raises
\* RecursionError (sys.getrecursionlimit(), 1000 by default)
RecursionLimit == 3
TelegramAnswers == {"ok", "RetryAfter", "TelegramError"}

\* how many messages the text is sent as: the text itself up to PART_CHARS
\* characters, and else its slices text[i:i+4000] for i in range(0, len, 4000)
PartsOf(len) ==
  IF len > PART_CHARS THEN (len + PART_CHARS - 1) \div PART_CHARS ELSE 1

\* no call yet, on a fresh State
InitSend == InitCooldown

\* send(text) is called
SendCall ==
  /\ sending.pc = "idle"
  /\ \E len \in TextLengths :
       sending' = [pc |-> "trying", len |-> len, part |-> 1, depth |-> 1,
                   attempts |-> 0, delivered |-> <<>>, result |-> "none"]
  /\ UNCHANGED <<detvars, movevars, statevars, now, file, persvars, answer, fired, procvars>>

\* one await of bot.send_message and what send does with its outcome: the next
\* part, or True after the last; on RetryAfter the sleep and the nested
\* self.send(text), which starts again at the first part; on TelegramError
\* False. The nested call that exceeds the interpreter's limit raises
\* RecursionError, which no except clause of send catches.
SendMessage ==
  /\ sending.pc = "trying"
  /\ \E a \in TelegramAnswers :
       sending' =
         IF a = "ok"
         THEN IF sending.part = PartsOf(sending.len)
              THEN [sending EXCEPT !.pc = "returned", !.result = TRUE,
                                   !.attempts = @ + 1,
                                   !.delivered = Append(@, sending.part)]
              ELSE [sending EXCEPT !.part = @ + 1, !.attempts = @ + 1,
                                   !.delivered = Append(@, sending.part)]
         ELSE IF a = "RetryAfter"
         THEN IF sending.depth < RecursionLimit
              THEN [sending EXCEPT !.part = 1, !.depth = @ + 1, !.attempts = @ + 1]
              ELSE [sending EXCEPT !.pc = "raised", !.result = "RecursionError",
                                   !.attempts = @ + 1]
         ELSE [sending EXCEPT !.pc = "returned", !.result = FALSE,
                              !.attempts = @ + 1]
  /\ UNCHANGED <<detvars, movevars, statevars, now, file, persvars, answer, fired, procvars>>

NextSend == SendCall \/ SendMessage

SpecSend == InitSend /\ [][NextSend]_vars

\* every part of the text was delivered at least once
WholeDelivered ==
  \A p \in 1..PartsOf(sending.len) :
    \E i \in 1..Len(sending.delivered) : sending.delivered[i] = p

\* C35: Notifier.send always ends by returning True or False after a number
\* of delivery attempts bounded by the notifier itself (one attempt per part
\* and retry, the retries counted against a limit of its own), and it returns
\* True exactly when the whole text was delivered.
C35_SendReturnsAfterBoundedAttempts ==
  sending.pc \in {"returned", "raised"} =>
    /\ sending.pc = "returned"
    /\ sending.result \in BOOLEAN
    /\ sending.result = WholeDelivered


(***************************************************************************)
(* SpecNews: one run of the process in which the interval job of           *)
(* news_scan runs beside the market cycles, and a notification may fail    *)
(* to be delivered                                                         *)
(***************************************************************************)
\* how many times the job of news_scan fires
MaxNewsScans == 1
NewsThread == "news_scan"
\* the awaits of news_scan, in the order of the code: fetch_iran_news,
\* ai_filter_news, the two market fetches, ai_analyze_news, send_news or the
\* raw send, ai_update_knowledge
NewsAwaits == <<"fetch_news", "filter", "markets", "analyze", "send", "update">>

InitNews ==
  /\ NoDetCall
  /\ NoMoveCall
  /\ NoApiCall
  /\ NoPersistCall
  /\ FreshState
  /\ now = 0
  /\ file \in InitialFiles
  /\ pc = "down"
  /\ scan = [th \in Threads \cup {NewsThread} |-> IdleScan]
  /\ run = 0
  /\ cycles = 0
  /\ alerts = [c \in Channels |-> {}]
  /\ persisted = [c \in Classes |-> {}]
  /\ committed = file
  /\ responses = NoResponses

\* the interval job of news_scan fires: it awaits fetch_iran_news
NewsScanStart ==
  /\ pc = "running"
  /\ scan[NewsThread].pc = "idle"
  /\ scan[NewsThread].n < MaxNewsScans
  /\ NoDump
  /\ scan' = [scan EXCEPT ![NewsThread] = [@ EXCEPT !.pc = NewsAwaits[1], !.i = 1, !.n = @ + 1]]
  /\ UNCHANGED <<statevars, now, file, pc, run, cycles, alerts, persisted, committed,
                 othervars>>

\* news_scan: the call it awaits has returned and it goes on to its next
\* await.  It appends to seen_news and sent_topics and assigns knowledge_base,
\* which the model does not hold.
NewsScanOn ==
  /\ scan[NewsThread].pc \notin {"idle"}
  /\ scan[NewsThread].i < Len(NewsAwaits)
  /\ NoDump
  /\ scan' = [scan EXCEPT ![NewsThread] =
                [@ EXCEPT !.pc = NewsAwaits[scan[NewsThread].i + 1], !.i = @ + 1]]
  /\ UNCHANGED <<statevars, now, file, pc, run, cycles, alerts, persisted, committed,
                 othervars>>

\* news_scan returns without a save: no new GUID, or an exception that its
\* except clause logs
NewsScanReturned ==
  /\ scan[NewsThread].pc \notin {"idle"}
  /\ NoDump
  /\ scan' = [scan EXCEPT ![NewsThread] = [@ EXCEPT !.pc = "idle", !.i = 0]]
  /\ UNCHANGED <<statevars, now, file, pc, run, cycles, alerts, persisted, committed,
                 othervars>>

\* news_scan calls state.save() and returns: behind ai_filter_news when
\* nothing passed the filter, behind the send when there is no summary, and
\* behind ai_update_knowledge.  save() awaits nothing: it writes the State as
\* it is in memory at that moment.
NewsScanSaved ==
  /\ scan[NewsThread].pc \in {"filter", "send", "update"}
  /\ NoDump
  /\ Saved
  /\ scan' = [scan EXCEPT ![NewsThread] = [@ EXCEPT !.pc = "idle", !.i = 0]]
  /\ UNCHANGED <<statevars, now, pc, run, cycles, alerts, othervars>>

\* market_scan: send_arbitrage, send_big_move or send_correlation has
\* returned after Notifier.send caught a TelegramError and returned False:
\* nothing was delivered, the result is dropped and the key is marked
SendFailed(th) ==
  /\ scan[th].pc \in Classes
  /\ NoDump
  /\ LET cls == scan[th].pc
         candidate == scan[th].todo[scan[th].i]
         st == IF cls = "arb"
               THEN [StateNow EXCEPT !.sent_arb_alerts =
                       mark_arb_alert(sent_arb_alerts, ArbKey(candidate), now)]
               ELSE IF cls = "move"
               THEN [StateNow EXCEPT !.sent_move_alerts =
                       mark_move_alert(sent_move_alerts, MoveKey(candidate), now)]
               ELSE [StateNow EXCEPT !.sent_corr_alerts =
                       mark_corr_alert(sent_corr_alerts, CorrKey(candidate), now)]
     IN StepTo(th, IF cls = "arb" THEN ResumeArb(scan[th], st, now)
                   ELSE IF cls = "move" THEN ResumeMoves(scan[th], st, now)
                   ELSE ResumeCorr(scan[th], st, now), st)
  /\ UNCHANGED <<now, pc, run, cycles, alerts, persisted, committed, othervars>>

NextNews ==
  \/ Start
  \/ InitFetched
  \/ InitSaveEnd
  \/ StartupSent
  \/ ScanStart
  \/ \E th \in Threads :
       \/ ScanFetched(th)
       \/ ArbSent(th)
       \/ NewsFetched(th)
       \/ MoveSent(th)
       \/ CorrSent(th)
       \/ SnapshotSent(th)
       \/ HeartbeatSent(th)
       \/ ScanSaveEnd(th)
       \/ SendFailed(th)
  \/ NewsScanStart
  \/ NewsScanOn
  \/ NewsScanReturned
  \/ NewsScanSaved

SpecNews == InitNews /\ [][NextNews]_vars


\* a market_scan is suspended at one of its awaits
MarketCycleInProgress == \E th \in Threads : scan[th].pc \in TryAwaits

\* the cooldown map of class cls in the document d
DocMap(d, cls) ==
  IF cls = "arb" THEN d.sent_arb_alerts
  ELSE IF cls = "corr" THEN d.sent_corr_alerts
  ELSE d.sent_move_alerts

\* every cooldown record of the document d is the record of an alert that
\* was delivered
RecordsAreOfSentAlerts(d) ==
  \A cls \in Classes : \A key \in DOMAIN DocMap(d, cls) :
    \E a \in alerts[cls] : a.key = key /\ a.at = DocMap(d, cls)[key]

\* C36: a step of news_scan leaves price_history and the three cooldown maps
\* as they are, and the document that a save() writes while a market cycle
\* is in progress holds cooldown records of delivered alerts only.
C36_OnlyTheMarketCycleMutates ==
  /\ [][scan'[NewsThread] # scan[NewsThread]
          => UNCHANGED <<price_history, sent_arb_alerts, sent_corr_alerts,
                         sent_move_alerts>>]_vars
  /\ [][(MarketCycleInProgress /\ file' # file /\ file'.kind = "doc")
          => RecordsAreOfSentAlerts(file'.doc)]_vars


(***************************************************************************)
(* Properties of the cooldown methods on unparsable records (SpecUnparsed) *)
(***************************************************************************)
\* the step is a mark_*_alert(key) of class cls
IsMarkOf(cls, key) ==
  /\ key \in DOMAIN fired'[cls]
  /\ fired'[cls][key] = now
  /\ fired' # fired \/ SentMapAfter(cls) # SentMap(cls)

\* C37: a call of can_alert_* leaves the three cooldown maps as they are and
\* returns a boolean; for a key whose record is no parsable timestamp it
\* returns true; and such a record stays as it is in every step but a
\* mark_*_alert of its class for that key, which puts the instant of the
\* mark in its place.
C37_UnparsableRecordIsNeverFired ==
  /\ [][(answer' # NoAnswer /\ answer' # answer)
          => /\ UNCHANGED <<sent_arb_alerts, sent_corr_alerts, sent_move_alerts>>
             /\ answer'.result \in BOOLEAN
             /\ (/\ answer'.key \in DOMAIN SentMap(answer'.cls)
                 /\ SentMap(answer'.cls)[answer'.key] \in UnparsableRecords)
                  => answer'.result]_vars
  /\ [][\A cls \in Classes : \A key \in DOMAIN SentMap(cls) :
          SentMap(cls)[key] \in UnparsableRecords
            => /\ key \in DOMAIN SentMapAfter(cls)
               /\ \/ SentMapAfter(cls)[key] = SentMap(cls)[key]
                  \/ IsMarkOf(cls, key) /\ SentMapAfter(cls)[key] = now]_vars

\* C37: can_alert_corr has just returned true for a key whose record cannot
\* be parsed and is still in the map, while the unparsable record of the
\* arbitrage map has been overwritten by a mark
C37_Witness ==
  /\ answer # NoAnswer
  /\ answer.cls = "corr"
  /\ answer.key \in DOMAIN sent_corr_alerts
  /\ sent_corr_alerts[answer.key] \in UnparsableRecords
  /\ answer.result
  /\ now > 0
  /\ "k1" \in DOMAIN sent_arb_alerts
  /\ sent_arb_alerts["k1"] \notin UnparsableRecords


C39_MarketInfoFollowsPrices ==
  built.cls = "update_prices" =>
    /\ bot.previous_prices = built.new_prices
    /\ DOMAIN bot.market_info \subseteq DOMAIN built.new_prices
    /\ \A id \in DOMAIN built.new_prices :
         IF id \in DOMAIN built.info
         THEN id \in DOMAIN bot.market_info /\ bot.market_info[id] = built.info[id]
         ELSE IF id \in DOMAIN built.before
         THEN id \in DOMAIN bot.market_info /\ bot.market_info[id] = built.before[id]
         ELSE id \notin DOMAIN bot.market_info

\* C39: one call has dropped the entry of a market that is no longer priced,
\* replaced the info of a market that is, and was given the info of a market
\* that has no price
C39_Witness ==
  /\ built.cls = "update_prices"
  /\ \E id \in DOMAIN built.before : id \notin DOMAIN built.new_prices
  /\ \E id \in DOMAIN built.before \cap DOMAIN built.info \cap DOMAIN built.new_prices :
       built.before[id] # built.info[id]
  /\ \E id \in DOMAIN built.info : id \notin DOMAIN built.new_prices

====
